---- MODULE Spec2Model ----
(***************************************************************************)
(* The mock speaking test of the web app: MockTestPage                     *)
(* (webapp/js/pages/mock-test.js), the shared Recorder (recorder.js) and   *)
(* the part of App / HomePage that enters and leaves the test.             *)
(*                                                                         *)
(* The page is single-threaded and event driven.  Every action below is    *)
(* one turn of the event loop: a tap on a button that is in the document,  *)
(* the completion of a request, of a microphone-permission prompt or of a  *)
(* MediaRecorder stop, or one callback of an interval timer.  A handler    *)
(* that awaits is split at the await; the part after the await is the      *)
(* action of the completion.                                               *)
(*                                                                         *)
(* Elements that a re-render removed from the document can still be        *)
(* written by callbacks that captured them; such writes have no visible    *)
(* effect.  The model keeps, for every pending callback, whether the       *)
(* elements it captured are still in the document (field ui / btn).        *)
(***************************************************************************)
EXTENDS Integers, Sequences, FiniteSets, TLC

\* ---- bounds of the model ------------------------------------------------
MaxSessions == 2      \* calls of MockTestPage.render
MaxPending == 2       \* captures, requests and countdowns alive at the same time
MaxQ == 1             \* questions per part returned by the server
MaxResponses == 2     \* length of responses
MaxHomePending == 1   \* HomePage.render calls awaiting /api/session-info

\* ---- program constants --------------------------------------------------
MinRecSec == 5        \* mock-test.js:457  if (elapsed < 5)
AutoAdvanceSec == 5   \* mock-test.js:573  let countdown = 5
MaxIndex == MaxQ + 1  \* cap of currentIndex (goNext of a leaked interval)

parts == <<"1.1", "1.2", "2", "3">>
QParts == {"1.1", "1.2", "2"}
NullTest == [p \in QParts |-> 0]
\* The tests the server may return: the question parts run the same code, so
\* they get the same number of questions, and part "1.2" may also be empty
\* between two parts that are not.
Tests == {t \in [QParts -> 0..MaxQ] : t["1.1"] = t["2"] /\ t["1.2"] \in {0, t["1.1"]}}

VARIABLES
    currentPage,       \* App.currentPage: "home" | "mock-test"
    screen,            \* what container.innerHTML currently shows
    homePending,       \* HomePage.render calls that have not rendered yet
    renders,           \* number of MockTestPage.render calls so far
    startInFlight,     \* POST /api/sessions/start requests in flight
    issued,            \* session ids the server has handed out
    attempt,           \* history: how the latest render call has ended so far
    sessionId,         \* MockTestPage.sessionId (0 = null)
    test,              \* number of questions of each part of this.test
    currentPartIndex,
    currentIndex,
    responses,         \* sequence of <<part, question index>>
    state,             \* "idle" | "recording" | "processing"
    debateSide,        \* "none" | "for" | "against"
    hint,              \* text of #record-hint of the current screen
    seeBtn,            \* a "See Results" button is in the document
    aa,                \* auto-advance countdowns (showNextWithAutoAdvance)
    subs,              \* submitResponse requests in flight
    finals,            \* /complete requests in flight (their session ids)
    captures,          \* Recorder.start calls, their streams, MediaRecorders
                       \* and tick intervals, and which of them the fields
                       \* of Recorder refer to
    onTickUi,          \* Recorder.onTick writes elements in the document
    selectedVoice,     \* MockTestPage.selectedVoice is not null
    tts,               \* POST /api/tts requests of playQuestion in flight
    curAudio,          \* this.currentAudio is an Audio that is playing
    orphans,           \* Audio objects that play and that no field refers to
    pScreen,           \* PracticePage: what its last render put in the container
    pQuestions,        \* PracticePage.questions.length
    pCurrentIndex,     \* PracticePage.currentIndex
    pState,            \* PracticePage.state
    pResponses,        \* PracticePage.responses.length
    pNextBtn,          \* #next-btn of the question on display: "none", "next", "last"
    pRecorderHidden,   \* #recorder-area of the question on display has class hidden
    preps,             \* preparation countdowns: closures of startPrepTimer
    pSubs,             \* PracticePage.handleRecording calls awaiting the server
    pPart,             \* PracticePage.part
    pFollow,           \* #followup-btn of the action area on display
    pFus,              \* PracticePage: POST /api/follow-up requests in flight
    oScreen,           \* old MockTestPage: what it has put in the container
    oQuestions,        \* old MockTestPage: allQuestions[3].length
    oIndex,            \* old MockTestPage.currentIndex
    oState,            \* old MockTestPage.state
    oResponses,        \* old MockTestPage.responses.length
    oAA,               \* old MockTestPage: calls of showNextWithAutoAdvance
    oFollow,           \* old MockTestPage: #followup-btn of the action area on display
    oFus,              \* old MockTestPage: POST /api/follow-up requests in flight
    oSubs,             \* old MockTestPage.handleRecording calls awaiting the server
    oPart,             \* old MockTestPage.currentPart: 1 | 2 | 3
    oHidden,           \* old MockTestPage: #recorder-area has the class hidden
    oPreps,            \* old MockTestPage: preparation countdowns (startPrepTimer)
    dScreen,           \* PronunciationPage: what it has put in the container
    dItems,            \* PronunciationPage.currentDrill.items.length
    dIndex,            \* PronunciationPage.currentItemIndex
    dState,            \* setupDrillRecord: state of the closure of the screen on display
    dHint,             \* text of #record-hint of the drill screen on display
    dActions,          \* #retry-btn and #next-btn on display: "none", "next", "last"
    dChecks,           \* handleDrillRecording calls awaiting /api/pronunciation/check
    maxDuration,       \* Recorder.maxDuration (0 = null)
    rhist,             \* history of the Recorder: calls and callbacks so far
    okReturns,         \* history: successful submitResponse returns since render
    ev                 \* history: the last event

appVars == <<currentPage, homePending, renders, startInFlight, issued, attempt>>
pageVars == <<sessionId, test, currentPartIndex, currentIndex, responses,
              state, debateSide>>
domVars == <<screen, hint, seeBtn>>
asyncVars == <<aa, subs, finals>>
recVars == <<captures, onTickUi>>
audioVars == <<tts, curAudio, orphans>>
playVars == <<selectedVoice, tts, curAudio, orphans>>
followVars == <<pPart, pFollow, pFus>>
practiceVars == <<pScreen, pQuestions, pCurrentIndex, pState, pResponses, pNextBtn,
                  pRecorderHidden, preps, pSubs, followVars>>
cueVars == <<oPart, oHidden, oPreps>>
drillVars == <<dScreen, dItems, dIndex, dState, dHint, dActions, dChecks>>
oldVars == <<oScreen, oQuestions, oIndex, oState, oResponses, oAA, oFollow, oFus, oSubs,
             cueVars, drillVars>>
otherVars == <<maxDuration, rhist, practiceVars, oldVars>>
vars == <<appVars, pageVars, domVars, asyncVars, recVars, playVars, otherVars, okReturns, ev>>

\* ---- small helpers ------------------------------------------------------
currentPart == parts[currentPartIndex + 1]

\* A question list that seems one shorter than it is
NumQOneLess(t, p) == IF p \in QParts /\ t[p] > 0 THEN t[p] - 1 ELSE 0

\* currentQuestions.length: part "3" has a topic and no question list
NumQ(t, p) == IF p \in QParts THEN t[p] ELSE 0

\* ---- auto-advance countdowns --------------------------------------------
\* An entry is one call of showNextWithAutoAdvance: its closure variable
\* countdown, its interval (timer = not cleared), its Next button (btn =
\* still in the document), whether
\* this.autoAdvanceTimer holds its interval (cur), and how often its goNext
\* has run (fired, history).  An entry whose interval is cleared and whose
\* button is gone can do nothing any more and is dropped.
Prune(a) == SelectSeq(a, LAMBDA r : r.timer \/ r.btn)

\* clearAutoAdvance(): clears the interval this.autoAdvanceTimer refers to
clearAutoAdvance(a) ==
    [i \in DOMAIN a |-> IF a[i].cur
                        THEN [a[i] EXCEPT !.timer = FALSE, !.cur = FALSE]
                        ELSE a[i]]

\* container.innerHTML = ... removes every Next button from the document
DetachAA(a) == [i \in DOMAIN a |-> [a[i] EXCEPT !.btn = FALSE]]

DetachSubs(s) == [i \in DOMAIN s |-> [s[i] EXCEPT !.ui = FALSE]]

DetachCaptures(c) == [i \in DOMAIN c |-> [c[i] EXCEPT !.ui = FALSE]]

RemoveAt(s, i) == SubSeq(s, 1, i - 1) \o SubSeq(s, i + 1, Len(s))

\* ---- Recorder -----------------------------------------------------------
\* Recorder.isRecording()
isRecording == \E i \in DOMAIN captures : captures[i].mr /\ captures[i].st = "recording"

\* Recorder.stop(): MediaRecorder.stop() makes the recorder inactive at once
\* and queues its stop event
RecorderStop(c) ==
    [i \in DOMAIN c |-> IF c[i].mr /\ c[i].st = "recording"
                        THEN [c[i] EXCEPT !.st = "stopping"]
                        ELSE c[i]]

\* ---- prompt playback ----------------------------------------------------
\* Audio objects that play and requests that will make one
Playing == tts + orphans + (IF curAudio THEN 1 ELSE 0)

\* Callbacks, requests, countdowns and audio that are alive
Pending(c, u, a, f) == Len(c) + Len(u) + Len(a) + Len(f) + Playing

\* A playQuestion that asks for speech whether or not a voice is selected
playQuestionAnyVoice ==
    /\ curAudio' = FALSE
    /\ UNCHANGED orphans
    /\ Pending(captures, subs, aa, finals) - (IF curAudio THEN 1 ELSE 0) < MaxPending
    /\ tts' = tts + 1

\* playQuestion(text) up to its await: the current audio is paused and
\* forgotten; with a voice selected the speech request is sent
playQuestion ==
    /\ curAudio' = FALSE
    /\ UNCHANGED orphans
    /\ IF selectedVoice
       THEN /\ Pending(captures, subs, aa, finals) - (IF curAudio THEN 1 ELSE 0) < MaxPending
            /\ tts' = tts + 1
       ELSE UNCHANGED tts

\* ---- rendering ----------------------------------------------------------
\* container.innerHTML = <scr>: everything that was in the document is gone.
\* a and c are aa and captures as the handler has left them so far.
Render(scr, a, c) ==
    /\ screen' = scr
    /\ hint' = IF scr \in {"question", "debateRecord"} THEN <<"tap", 0>> ELSE <<"none", 0>>
    /\ seeBtn' = FALSE
    /\ aa' = Prune(DetachAA(a))
    /\ subs' = DetachSubs(subs)
    /\ captures' = DetachCaptures(c)
    /\ onTickUi' = FALSE

\* showResults(container) up to its await
showResults(a, c) ==
    /\ Render("resultsLoading", clearAutoAdvance(a), c)
    /\ finals' = Append(finals, sessionId)

\* A check that lets the index one past the list through
outOfQuestionsLate(idx) == idx > NumQ(test, currentPart)

\* if (this.currentIndex >= questions.length)
outOfQuestions(idx) == idx >= NumQ(test, currentPart)

\* renderQuestion(container), entered with currentIndex = idx
renderQuestion(idx, a, c) ==
    LET a1 == clearAutoAdvance(a) IN
    IF currentPart = "3"
    THEN /\ Render(IF debateSide = "none" THEN "debateSelect" ELSE "debateRecord", a1, c)
         /\ currentIndex' = idx
         /\ IF debateSide = "none" THEN UNCHANGED audioVars ELSE playQuestion
         /\ UNCHANGED <<currentPartIndex, debateSide, finals>>
    ELSE IF outOfQuestions(idx)
    THEN IF currentPartIndex < Len(parts) - 1
         THEN /\ currentPartIndex' = currentPartIndex + 1
              /\ currentIndex' = 0
              /\ debateSide' = "none"
              /\ Render("transition", clearAutoAdvance(a1), c)
              /\ UNCHANGED audioVars
              /\ UNCHANGED finals
         ELSE /\ showResults(a1, c)
              /\ currentIndex' = idx
              /\ UNCHANGED audioVars
              /\ UNCHANGED <<currentPartIndex, debateSide>>
    ELSE /\ Render("question", a1, c)
         /\ currentIndex' = idx
         /\ playQuestion
         /\ UNCHANGED <<currentPartIndex, debateSide, finals>>

\* App.navigate('home'): HomePage.render awaits /api/session-info before it
\* replaces the container
navigateHome ==
    /\ currentPage' = "home"
    /\ homePending' = homePending + 1

Init ==
    /\ currentPage = "home"
    /\ screen = "home"
    /\ homePending = 0
    /\ renders = 0
    /\ startInFlight = 0
    /\ issued = 0
    /\ attempt = "none"
    /\ sessionId = 0
    /\ test = NullTest
    /\ currentPartIndex = 0
    /\ currentIndex = 0
    /\ responses = <<>>
    /\ state = "idle"
    /\ debateSide = "none"
    /\ hint = <<"none", 0>>
    /\ seeBtn = FALSE
    /\ aa = <<>>
    /\ subs = <<>>
    /\ finals = <<>>
    /\ captures = <<>>
    /\ onTickUi = FALSE
    /\ selectedVoice = FALSE
    /\ tts = 0
    /\ curAudio = FALSE
    /\ orphans = 0
    /\ pScreen = "none"
    /\ pQuestions = 0
    /\ pCurrentIndex = 0
    /\ pState = "idle"
    /\ pResponses = 0
    /\ pNextBtn = "none"
    /\ pRecorderHidden = FALSE
    /\ preps = <<>>
    /\ pSubs = <<>>
    /\ pPart = 1
    /\ pFollow = "none"
    /\ pFus = <<>>
    /\ oScreen = "none"
    /\ oQuestions = 0
    /\ oIndex = 0
    /\ oState = "idle"
    /\ oResponses = 0
    /\ oAA = <<>>
    /\ oFollow = "none"
    /\ oFus = <<>>
    /\ oSubs = <<>>
    /\ oPart = 1
    /\ oHidden = FALSE
    /\ oPreps = <<>>
    /\ dScreen = "none"
    /\ dItems = 0
    /\ dIndex = 0
    /\ dState = "idle"
    /\ dHint = "listen"
    /\ dActions = "none"
    /\ dChecks = <<>>
    /\ maxDuration = 0
    /\ rhist = [starts |-> 0, started |-> 0, stops |-> 0, delivered |-> 0, overlap |-> FALSE]
    /\ okReturns = 0
    /\ ev = "init"


\* ---- App / HomePage -----------------------------------------------------
\* A home card is tapped: App.navigate('mock-test') -> MockTestPage.render
\* up to its await
TapMockTest ==
    /\ screen = "home"
    /\ renders < MaxSessions
    /\ currentPage' = "mock-test"
    /\ renders' = renders + 1
    /\ currentPartIndex' = 0
    /\ currentIndex' = 0
    /\ responses' = <<>>
    /\ state' = "idle"
    /\ debateSide' = "none"
    /\ test' = NullTest
    /\ Render("loading", clearAutoAdvance(aa), captures)
    /\ startInFlight' = startInFlight + 1
    /\ okReturns' = 0
    /\ attempt' = "pending"
    /\ ev' = "-"
    /\ UNCHANGED otherVars
    /\ selectedVoice' = FALSE
    /\ UNCHANGED audioVars
    /\ UNCHANGED <<homePending, issued, sessionId, finals>>

\* POST /api/sessions/start succeeds: render continues with renderIntro
StartOk(t) ==
    /\ startInFlight > 0
    /\ startInFlight' = startInFlight - 1
    /\ issued' = issued + 1
    /\ sessionId' = issued + 1
    /\ test' = t
    /\ Render("intro", aa, captures)
    /\ attempt' = "ok"
    /\ ev' = "-"
    /\ UNCHANGED otherVars
    /\ UNCHANGED playVars
    /\ UNCHANGED <<currentPage, homePending, renders, currentPartIndex, currentIndex,
                   responses, state, debateSide, finals, okReturns>>

\* POST /api/sessions/start fails: the catch block of render
StartFail(isLimit) ==
    /\ startInFlight > 0
    /\ startInFlight' = startInFlight - 1
    /\ Render(IF isLimit THEN "limit" ELSE "startError", aa, captures)
    /\ attempt' = IF isLimit THEN "limit" ELSE "error"
    /\ ev' = "-"
    /\ UNCHANGED otherVars
    /\ UNCHANGED playVars
    /\ UNCHANGED <<currentPage, homePending, renders, issued, pageVars, finals, okReturns>>

\* HomePage.render after its await: the container shows the home page
HomeRender ==
    /\ homePending > 0
    /\ homePending' = homePending - 1
    /\ Render("home", aa, captures)
    /\ ev' = "-"
    /\ UNCHANGED otherVars
    /\ UNCHANGED playVars
    /\ UNCHANGED <<currentPage, renders, attempt, startInFlight, issued, pageVars, finals, okReturns>>

\* ---- buttons that only navigate ------------------------------------------
\* back / home buttons of the intro, error, limit, debate selection, part
\* transition and result screens: () => App.navigate('home')
TapBackPlain ==
    /\ screen \in {"intro", "startError", "limit", "debateSelect", "transition",
                   "results", "resultsError"}
    /\ homePending < MaxHomePending
    /\ navigateHome
    /\ ev' = "-"
    /\ UNCHANGED otherVars
    /\ UNCHANGED playVars
    /\ UNCHANGED <<renders, startInFlight, issued, attempt, pageVars, domVars, asyncVars,
                   recVars, okReturns>>

\* Finish button of the debate selection and part transition screens
TapFinishPlain ==
    /\ screen \in {"debateSelect", "transition"}
    /\ homePending < MaxHomePending
    /\ navigateHome
    /\ ev' = "finish"
    /\ UNCHANGED otherVars
    /\ UNCHANGED playVars
    /\ UNCHANGED <<renders, startInFlight, issued, attempt, pageVars, domVars, asyncVars,
                   recVars, okReturns>>

\* back button of a recording screen (question, debate recording):
\* clearAutoAdvance, Recorder.stop() if it is recording, App.navigate('home')
TapBack ==
    /\ screen \in {"question", "debateRecord"}
    /\ homePending < MaxHomePending
    /\ aa' = Prune(clearAutoAdvance(aa))
    /\ captures' = IF isRecording THEN RecorderStop(captures) ELSE captures
    /\ navigateHome
    /\ ev' = "-"
    /\ UNCHANGED otherVars
    /\ UNCHANGED playVars
    /\ UNCHANGED <<renders, startInFlight, issued, attempt, pageVars, domVars, subs, finals,
                   onTickUi, okReturns>>

\* A Finish handler that moves on to the scoring request
FinishHandlerFinalizes ==
    /\ showResults(aa, IF isRecording THEN RecorderStop(captures) ELSE captures)
    /\ UNCHANGED <<currentPage, homePending>>

\* The handler of the Finish button of a recording screen: the same three
\* statements as the back button
FinishHandler ==
    /\ aa' = Prune(clearAutoAdvance(aa))
    /\ captures' = IF isRecording THEN RecorderStop(captures) ELSE captures
    /\ navigateHome
    /\ UNCHANGED <<domVars, subs, finals, onTickUi>>

TapFinish ==
    /\ screen \in {"question", "debateRecord"}
    /\ homePending < MaxHomePending
    /\ FinishHandler
    /\ ev' = "finish"
    /\ UNCHANGED otherVars
    /\ UNCHANGED playVars
    /\ UNCHANGED <<renders, startInFlight, issued, attempt, pageVars, okReturns>>

\* ---- buttons that render the next screen ---------------------------------
\* A voice card of the intro is tapped: the voice is selected, or deselected
\* when it was the selected one (a tap on another voice keeps one selected)
TapVoice ==
    /\ screen = "intro"
    /\ selectedVoice' = ~selectedVoice
    /\ ev' = "-"
    /\ UNCHANGED otherVars
    /\ UNCHANGED <<appVars, pageVars, domVars, asyncVars, recVars, audioVars, okReturns>>

TapStart ==
    /\ screen = "intro"
    /\ renderQuestion(currentIndex, aa, captures)
    /\ ev' = "-"
    /\ UNCHANGED otherVars
    /\ UNCHANGED selectedVoice
    /\ UNCHANGED <<appVars, sessionId, test, responses, state, okReturns>>

TapContinue ==
    /\ screen = "transition"
    /\ renderQuestion(currentIndex, aa, captures)
    /\ ev' = "-"
    /\ UNCHANGED otherVars
    /\ UNCHANGED selectedVoice
    /\ UNCHANGED <<appVars, sessionId, test, responses, state, okReturns>>

\* A side button that does not store the side
TapSideForgets(side) ==
    /\ screen = "debateSelect"
    /\ debateSide' = debateSide
    /\ Render("debateRecord", aa, captures)
    /\ ev' = "-"
    /\ UNCHANGED otherVars
    /\ playQuestion
    /\ UNCHANGED selectedVoice
    /\ UNCHANGED <<appVars, sessionId, test, currentPartIndex, currentIndex, responses,
                   state, finals, okReturns>>

\* For / Against button of the debate selection
TapSide(side) ==
    /\ screen = "debateSelect"
    /\ debateSide' = side
    /\ Render("debateRecord", aa, captures)
    /\ ev' = "-"
    /\ UNCHANGED otherVars
    /\ playQuestion
    /\ UNCHANGED selectedVoice
    /\ UNCHANGED <<appVars, sessionId, test, currentPartIndex, currentIndex, responses,
                   state, finals, okReturns>>

TapSeeResults ==
    /\ screen = "debateRecord"
    /\ seeBtn
    /\ showResults(aa, captures)
    /\ ev' = "-"
    /\ UNCHANGED otherVars
    /\ UNCHANGED playVars
    /\ UNCHANGED <<appVars, pageVars, okReturns>>


\* ---- the record button (setupRecordBtn) ----------------------------------
OnRecordScreen == screen \in {"question", "debateRecord"}

\* Date.now() is an input of the handlers: elapsed is the number of whole
\* seconds since recordingStartTime (Recorder.startTime for a tick), and
\* MinRecSec stands for every value from MinRecSec on.  The inputs are the
\* start, the last second before the minimum and the minimum.
Elapsed == {0, MinRecSec - 1, MinRecSec}

\* The comparison with the last second before the minimum left out
TooEarlyOffByOne(elapsed) == elapsed < MinRecSec - 1

\* if (elapsed < 5)
TooEarly(elapsed) == elapsed < MinRecSec

\* state === 'recording': the stop is refused with a hint while elapsed < 5,
\* else Recorder.stop() and state = 'processing'
StopTap(elapsed) ==
    /\ OnRecordScreen
    /\ state = "recording"
    /\ IF TooEarly(elapsed)
       THEN /\ hint' = <<"wait", MinRecSec - elapsed>>
            /\ UNCHANGED <<state, captures>>
       ELSE /\ captures' = RecorderStop(captures)
            /\ state' = "processing"
            /\ hint' = <<"processing", 0>>
    /\ ev' = "-"
    /\ UNCHANGED otherVars
    /\ UNCHANGED playVars
    /\ UNCHANGED <<appVars, sessionId, test, currentPartIndex, currentIndex, responses,
                   debateSide, screen, seeBtn, asyncVars, onTickUi, okReturns>>

\* state === 'processing': the tap returns at once
TapWhileProcessing ==
    /\ OnRecordScreen
    /\ state = "processing"
    /\ ev' = "-"
    /\ UNCHANGED otherVars
    /\ UNCHANGED playVars
    /\ UNCHANGED <<appVars, pageVars, domVars, asyncVars, recVars, okReturns>>

\* Recorder.start(onTick, onStop, md) up to its await of getUserMedia: the
\* callbacks are stored and the permission request is pending.  Nothing is
\* checked before.  md is the maxDuration asked for (0 = none), kept with the
\* capture as history.
RecorderStart(md) ==
    /\ captures' = Append(captures, [st |-> "pending", stream |-> FALSE, timer |-> FALSE,
                                     ui |-> TRUE, mr |-> FALSE, sref |-> FALSE,
                                     tref |-> FALSE, md |-> md])
    /\ onTickUi' = TRUE

\* The mock test passes no maxDuration: this.maxDuration = null
RecorderStartCall == RecorderStart(0)

\* state === 'idle': await Recorder.start(...)
TapRecord ==
    /\ OnRecordScreen
    /\ state = "idle"
    /\ Pending(captures, subs, aa, finals) < MaxPending
    /\ RecorderStartCall
    /\ ev' = "-"
    /\ UNCHANGED otherVars
    /\ UNCHANGED playVars
    /\ UNCHANGED <<appVars, pageVars, domVars, asyncVars, okReturns>>

\* getUserMedia resolves in start(): the fields of Recorder now refer to the
\* new stream, MediaRecorder and tick interval; what they referred to before
\* is neither stopped nor cleared
RecorderStarted(c, i) ==
    [k \in DOMAIN c |->
        IF k = i
        THEN [st |-> "recording", stream |-> TRUE, timer |-> TRUE, ui |-> FALSE,
              mr |-> TRUE, sref |-> TRUE, tref |-> TRUE, md |-> c[i].md]
        ELSE [c[k] EXCEPT !.mr = FALSE, !.sref = FALSE, !.tref = FALSE]]

\* start() returns true and the click handler continues with the started
\* branch in the same turn
MicGranted(i) ==
    /\ i \in DOMAIN captures
    /\ captures[i].st = "pending"
    /\ captures' = RecorderStarted(captures, i)
    /\ state' = "recording"
    /\ hint' = IF captures[i].ui THEN <<"min", MinRecSec>> ELSE hint
    /\ ev' = "-"
    /\ UNCHANGED otherVars
    /\ curAudio' = FALSE
    /\ UNCHANGED <<selectedVoice, tts, orphans>>
    /\ UNCHANGED <<appVars, sessionId, test, currentPartIndex, currentIndex, responses,
                   debateSide, screen, seeBtn, asyncVars, onTickUi, okReturns>>

\* A failed start that leaves the page recording
MicDeniedHalfStarted(i) ==
    /\ i \in DOMAIN captures
    /\ captures[i].st = "pending"
    /\ captures' = RemoveAt(captures, i)
    /\ hint' = IF captures[i].ui THEN <<"denied", 0>> ELSE hint
    /\ state' = "recording"
    /\ ev' = "-"
    /\ UNCHANGED otherVars
    /\ UNCHANGED playVars
    /\ UNCHANGED <<appVars, sessionId, test, currentPartIndex, currentIndex, responses,
                   debateSide, screen, seeBtn, asyncVars, onTickUi, okReturns>>

\* getUserMedia rejects: start() returns false
MicDenied(i) ==
    /\ i \in DOMAIN captures
    /\ captures[i].st = "pending"
    /\ captures' = RemoveAt(captures, i)
    /\ hint' = IF captures[i].ui THEN <<"denied", 0>> ELSE hint
    /\ ev' = "-"
    /\ UNCHANGED otherVars
    /\ UNCHANGED playVars
    /\ UNCHANGED <<appVars, pageVars, screen, seeBtn, asyncVars, onTickUi, okReturns>>

\* One callback of a tick interval.  maxDuration is not passed by the mock
\* test, so the callback only calls onTick, which writes the hint captured
\* by the latest start() call; a callback that leaves the document as it is
\* is not a step.
RecorderTick(i, elapsed) ==
    /\ i \in DOMAIN captures
    /\ captures[i].timer
    /\ onTickUi
    /\ hint' = IF elapsed < MinRecSec THEN <<"min", MinRecSec - elapsed>>
                                      ELSE <<"tapstop", 0>>
    /\ hint' # hint
    /\ ev' = "-"
    /\ UNCHANGED otherVars
    /\ UNCHANGED playVars
    /\ UNCHANGED <<appVars, pageVars, screen, seeBtn, asyncVars, recVars, okReturns>>

\* Recorder.cleanup(): clears the interval and stops the tracks of the stream
\* the Recorder fields refer to.  A MediaRecorder that is recording a stream
\* whose tracks have all ended stops (its stop event is queued).
cleanup(c) ==
    [i \in DOMAIN c |->
        [st |-> IF c[i].sref /\ c[i].st = "recording" THEN "stopping" ELSE c[i].st,
         stream |-> c[i].stream /\ ~c[i].sref,
         timer |-> c[i].timer /\ ~c[i].tref,
         ui |-> c[i].ui,
         mr |-> c[i].mr,
         sref |-> FALSE,
         tref |-> FALSE,
         md |-> c[i].md]]

\* A capture that is inactive, or whose start has failed, whose stream is
\* stopped and whose interval is cleared has left nothing behind
Settle(c) == SelectSeq(c, LAMBDA r : ~(r.st \in {"inactive", "failed"} /\ ~r.stream /\ ~r.timer))

\* ---- handleRecording -----------------------------------------------------
\* A request that always argues for
debateSideSentFixed(p) == IF p = "3" THEN "for" ELSE "none"

\* if (isDebate && this.debateSide) formData.append('debate_side', ...)
debateSideSent(p) == IF p = "3" THEN debateSide ELSE "none"

\* handleRecording(blob, container) up to its await.  The elements are looked
\* up in the container as it is now: on a screen without #transcription-area
\* the first write throws before the try block and nothing else happens.
\* Inside the try block a missing question throws into the catch block;
\* otherwise the request is sent.
handleRecordingCall ==
    IF ~OnRecordScreen
    THEN UNCHANGED <<state, hint, subs>>
    ELSE IF currentPart # "3" /\ currentIndex >= NumQ(test, currentPart)
    THEN /\ state' = "idle"
         /\ hint' = <<"retry", 0>>
         /\ UNCHANGED subs
    ELSE /\ Pending(captures', subs, aa, finals) < MaxPending
         /\ subs' = Append(subs, [part |-> currentPart,
                                  q |-> IF currentPart = "3" THEN 0 ELSE currentIndex,
                                  sid |-> sessionId,
                                  side |-> debateSideSent(currentPart),
                                  ui |-> TRUE])
         /\ UNCHANGED <<state, hint>>

\* The stop event of a MediaRecorder: mediaRecorder.onstop
OnStop(i) ==
    /\ i \in DOMAIN captures
    /\ captures[i].st = "stopping"
    /\ captures' = Settle(cleanup([captures EXCEPT ![i].st = "inactive"]))
    /\ handleRecordingCall
    /\ ev' = "-"
    /\ UNCHANGED otherVars
    /\ UNCHANGED playVars
    /\ UNCHANGED <<appVars, sessionId, test, currentPartIndex, currentIndex, responses,
                   debateSide, screen, seeBtn, aa, finals, onTickUi,
                   okReturns>>

\* A Next button that comes without a countdown
showNextWithoutCountdown(a, inDoc) ==
    LET old == [i \in DOMAIN a |-> [a[i] EXCEPT !.cur = FALSE,
                                               !.btn = a[i].btn /\ ~inDoc]]
    IN Append(Prune(old), [countdown |-> AutoAdvanceSec, timer |-> FALSE,
                           btn |-> inDoc, cur |-> FALSE, fired |-> 0])

\* showNextWithAutoAdvance(actionArea, container): a new countdown whose
\* interval replaces the one in this.autoAdvanceTimer without clearing it.
\* inDoc: actionArea is in the document, so its old content is replaced.
showNextWithAutoAdvance(a, inDoc) ==
    LET old == [i \in DOMAIN a |-> [a[i] EXCEPT !.cur = FALSE,
                                               !.btn = a[i].btn /\ ~inDoc]]
    IN Append(Prune(old), [countdown |-> AutoAdvanceSec, timer |-> TRUE,
                           btn |-> inDoc, cur |-> TRUE, fired |-> 0])

\* The record assigned to this.responses instead of pushed
PushResponseOverwrites(r, s) == <<<<s.part, s.q>>>>

\* What a successful return appends to this.responses
PushResponse(r, s) == Append(r, <<s.part, s.q>>)

\* POST /respond succeeds: handleRecording continues after its await
SubmitReturned(i) ==
    /\ i \in DOMAIN subs
    /\ responses' = PushResponse(responses, subs[i])
    /\ okReturns' = okReturns + 1
    /\ subs' = RemoveAt(subs, i)
    /\ IF subs[i].part = "3"
       THEN /\ seeBtn' = (seeBtn \/ subs[i].ui)
            /\ aa' = IF subs[i].ui THEN Prune(DetachAA(aa)) ELSE aa
       ELSE /\ seeBtn' = (seeBtn /\ ~subs[i].ui)
            /\ aa' = showNextWithAutoAdvance(aa, subs[i].ui)
            /\ Pending(captures, subs', aa', finals) <= MaxPending
    /\ state' = "idle"
    /\ ev' = "-"
    /\ UNCHANGED otherVars
    /\ UNCHANGED playVars
    /\ UNCHANGED <<appVars, sessionId, test, currentPartIndex, currentIndex,
                   debateSide, screen, hint, finals, recVars>>

\* A catch block that leaves this.state as it is
SubmitFailedKeepsState(s) ==
    /\ hint' = IF s.ui THEN <<"retry", 0>> ELSE hint
    /\ UNCHANGED <<state, responses, aa, seeBtn, okReturns>>

SubmitOk(i) ==
    /\ Len(responses) < MaxResponses
    /\ SubmitReturned(i)

\* The catch block of handleRecording
SubmitFailed(s) ==
    /\ state' = "idle"
    /\ hint' = IF s.ui THEN <<"retry", 0>> ELSE hint
    /\ UNCHANGED <<responses, aa, seeBtn, okReturns>>

\* POST /respond fails
SubmitFail(i) ==
    /\ i \in DOMAIN subs
    /\ SubmitFailed(subs[i])
    /\ subs' = RemoveAt(subs, i)
    /\ ev' = "submitFail"
    /\ UNCHANGED otherVars
    /\ UNCHANGED playVars
    /\ UNCHANGED <<appVars, sessionId, test, currentPartIndex, currentIndex, debateSide, screen, finals, recVars>>

\* ---- auto-advance --------------------------------------------------------
\* goNext of countdown i: clearAutoAdvance, currentIndex++, state = 'idle',
\* renderQuestion
goNext(i, a) ==
    /\ currentIndex < MaxIndex
    /\ state' = "idle"
    /\ renderQuestion(currentIndex + 1,
                      clearAutoAdvance([a EXCEPT ![i].fired = IF a[i].fired = 0 THEN 1 ELSE 2]),
                      captures)

\* The Next button of countdown i is tapped
TapNext(i) ==
    /\ i \in DOMAIN aa
    /\ aa[i].btn
    /\ goNext(i, aa)
    /\ ev' = "-"
    /\ UNCHANGED otherVars
    /\ UNCHANGED selectedVoice
    /\ UNCHANGED <<appVars, sessionId, test, responses, okReturns>>

\* One callback of the interval of countdown i: countdown--, then goNext at
\* zero.  An interval that is never cleared keeps calling goNext.
AATick(i) ==
    /\ i \in DOMAIN aa
    /\ aa[i].timer
    /\ LET n == IF aa[i].countdown > 0 THEN aa[i].countdown - 1 ELSE 0
           a == [aa EXCEPT ![i].countdown = n]
       IN IF n <= 0
          THEN /\ goNext(i, a)
               /\ ev' = "-"
               /\ UNCHANGED otherVars
               /\ UNCHANGED selectedVoice
               /\ UNCHANGED <<appVars, sessionId, test, responses, okReturns>>
          ELSE /\ aa' = a
               /\ ev' = "-"
               /\ UNCHANGED otherVars
               /\ UNCHANGED playVars
               /\ UNCHANGED <<appVars, pageVars, domVars, subs, finals, recVars, okReturns>>

\* ---- prompt playback, after the await -----------------------------------
\* POST /api/tts succeeds: this.currentAudio = new Audio(url) and play().
\* The Audio this.currentAudio referred to is not paused.
TtsOk ==
    /\ tts > 0
    /\ tts' = tts - 1
    /\ orphans' = IF curAudio THEN orphans + 1 ELSE orphans
    /\ curAudio' = TRUE
    /\ ev' = "-"
    /\ UNCHANGED otherVars
    /\ UNCHANGED <<appVars, pageVars, domVars, asyncVars, recVars, selectedVoice, okReturns>>

\* A failed speech request that leaves the page busy
TtsFailBlocks ==
    /\ tts > 0
    /\ tts' = tts - 1
    /\ state' = "processing"
    /\ ev' = "ttsFail"
    /\ UNCHANGED otherVars
    /\ UNCHANGED <<appVars, sessionId, test, currentPartIndex, currentIndex, responses,
                   debateSide, domVars, asyncVars, recVars, selectedVoice, curAudio,
                   orphans, okReturns>>

\* POST /api/tts fails (!resp.ok or the fetch throws): nothing plays
TtsFail ==
    /\ tts > 0
    /\ tts' = tts - 1
    /\ ev' = "ttsFail"
    /\ UNCHANGED otherVars
    /\ UNCHANGED <<appVars, pageVars, domVars, asyncVars, recVars, selectedVoice, curAudio,
                   orphans, okReturns>>

\* A playing Audio reaches its end
AudioEnded ==
    /\ \/ curAudio /\ curAudio' = FALSE /\ UNCHANGED orphans
       \/ orphans > 0 /\ orphans' = orphans - 1 /\ UNCHANGED curAudio
    /\ ev' = "-"
    /\ UNCHANGED otherVars
    /\ UNCHANGED <<appVars, pageVars, domVars, asyncVars, recVars, selectedVoice, tts, okReturns>>

\* ---- finalisation --------------------------------------------------------
\* POST /complete succeeds: the result screen replaces the container
FinalizeOk(i) ==
    /\ i \in DOMAIN finals
    /\ finals' = RemoveAt(finals, i)
    /\ Render("results", aa, captures)
    /\ ev' = "-"
    /\ UNCHANGED otherVars
    /\ UNCHANGED playVars
    /\ UNCHANGED <<appVars, pageVars,
                   okReturns>>

\* POST /complete fails: the catch block of showResults
FinalizeFail(i) ==
    /\ i \in DOMAIN finals
    /\ finals' = RemoveAt(finals, i)
    /\ Render("resultsError", aa, captures)
    /\ ev' = "-"
    /\ UNCHANGED otherVars
    /\ UNCHANGED playVars
    /\ UNCHANGED <<appVars, pageVars,
                   okReturns>>

Next ==
    \/ TapMockTest
    \/ \E t \in Tests : StartOk(t)
    \/ \E l \in BOOLEAN : StartFail(l)
    \/ HomeRender
    \/ TapBackPlain
    \/ TapFinishPlain
    \/ TapBack
    \/ TapFinish
    \/ TapVoice
    \/ TapStart
    \/ TapContinue
    \/ \E side \in {"for", "against"} : TapSide(side)
    \/ TapSeeResults
    \/ \E e \in Elapsed : StopTap(e)
    \/ TapWhileProcessing
    \/ TapRecord
    \/ TtsOk
    \/ TtsFail
    \/ AudioEnded
    \/ \E i \in 1..MaxPending : MicGranted(i)
    \/ \E i \in 1..MaxPending : MicDenied(i)
    \/ \E i \in 1..MaxPending : \E e \in Elapsed : RecorderTick(i, e)
    \/ \E i \in 1..MaxPending : OnStop(i)
    \/ \E i \in 1..MaxPending : SubmitOk(i)
    \/ \E i \in 1..MaxPending : SubmitFail(i)
    \/ \E i \in 1..MaxPending : TapNext(i)
    \/ \E i \in 1..MaxPending : AATick(i)
    \/ \E i \in 1..MaxPending : FinalizeOk(i)
    \/ \E i \in 1..MaxPending : FinalizeFail(i)

Spec == Init /\ [][Next]_vars

\* ---- one complete run ----------------------------------------------------
\* The test is entered once and taken from the first prompt to the results:
\* every prompt is answered once, nothing fails, and the user neither leaves
\* nor taps record a second time for a prompt.
RunTests == [QParts -> 0..MaxQ]

Quiet == aa = <<>> /\ subs = <<>> /\ captures = <<>> /\ ~seeBtn

RunEnter == renders = 0 /\ TapMockTest
RunStartOk == \E t \in RunTests : StartOk(t)
RunStart == TapStart
RunContinue == TapContinue
RunSide == \E side \in {"for", "against"} : TapSide(side)
RunRecord == Quiet /\ TapRecord
RunGranted == MicGranted(1)
RunTick == \E e \in Elapsed : RecorderTick(1, e)
RunStop == \E e \in Elapsed : StopTap(e)
RunOnStop == OnStop(1)
RunSubmitOk == SubmitReturned(1)
RunNext == TapNext(1)
RunCountdown == AATick(1)
RunSeeResults == TapSeeResults

NextRun ==
    \/ RunEnter
    \/ RunStartOk
    \/ RunStart
    \/ RunContinue
    \/ RunSide
    \/ RunRecord
    \/ RunGranted
    \/ RunTick
    \/ RunStop
    \/ RunOnStop
    \/ RunSubmitOk
    \/ RunNext
    \/ RunCountdown
    \/ RunSeeResults

SpecRun == Init /\ [][NextRun]_vars

\* ---- the Recorder under any client ---------------------------------------
\* A second specification: the Recorder object alone, with a client that may
\* call start (with or without maxDuration) and stop at any time, as the
\* pages do (PronunciationPage.setupDrillRecord passes maxDuration,
\* MockTestPage passes none).  rhist counts the calls of start, the
\* recordings started, the calls of stop() that found a recording, and the
\* calls of onStop; overlap records that start was called while an earlier
\* capture was still pending or alive.
MaxStarts == 3
MaxDur == 2
Durations == {0, MaxDur}
TickElapsed == 0..MaxDur

\* this.maxDuration && elapsed >= this.maxDuration
AutoStopDueNever(elapsed) == FALSE

AutoStopDue(elapsed) == maxDuration > 0 /\ elapsed >= maxDuration

\* Recorder.stop() with its effect on the history
StopCall ==
    /\ captures' = RecorderStop(captures)
    /\ rhist' = [rhist EXCEPT !.stops = IF isRecording THEN @ + 1 ELSE @]

\* Recorder.start(onTick, onStop, md) up to the await
RStart(md) ==
    /\ rhist.starts < MaxStarts
    /\ Len(captures) < MaxPending
    /\ RecorderStart(md)
    /\ maxDuration' = md
    /\ rhist' = [rhist EXCEPT !.starts = @ + 1,
                              !.overlap = @ \/ captures # <<>>]
    /\ ev' = "rstart"
    /\ UNCHANGED <<appVars, pageVars, domVars, asyncVars, playVars, practiceVars, oldVars, okReturns>>

\* getUserMedia resolves: the recording has started, start() returns true
RGranted(i) ==
    /\ i \in DOMAIN captures
    /\ captures[i].st = "pending"
    /\ captures' = RecorderStarted(captures, i)
    /\ rhist' = [rhist EXCEPT !.started = @ + 1]
    /\ ev' = "rgranted"
    /\ UNCHANGED <<appVars, pageVars, domVars, asyncVars, playVars, practiceVars, oldVars, onTickUi,
                   maxDuration, okReturns>>

\* getUserMedia rejects: start() returns false
RDenied(i) ==
    /\ i \in DOMAIN captures
    /\ captures[i].st = "pending"
    /\ captures' = RemoveAt(captures, i)
    /\ ev' = "rdenied"
    /\ UNCHANGED <<appVars, pageVars, domVars, asyncVars, playVars, practiceVars, oldVars, onTickUi,
                   otherVars, okReturns>>

\* getUserMedia resolves and this.stream refers to the new stream, then the
\* try block throws before the recording runs, and start() returns false:
\* MediaRecorder is missing or its constructor throws (built = FALSE, so
\* this.mediaRecorder is as before), or mediaRecorder.start() throws
\* (built = TRUE).  The catch block only logs.
RStartThrows(i, built) ==
    /\ i \in DOMAIN captures
    /\ captures[i].st = "pending"
    /\ captures' = [k \in DOMAIN captures |->
                      IF k = i
                      THEN [captures[k] EXCEPT !.st = "failed", !.stream = TRUE,
                                               !.sref = TRUE, !.mr = built]
                      ELSE [captures[k] EXCEPT !.sref = FALSE,
                                               !.mr = IF built THEN FALSE ELSE @]]
    /\ ev' = "rthrows"
    /\ UNCHANGED <<appVars, pageVars, domVars, asyncVars, playVars, practiceVars, oldVars, onTickUi,
                   otherVars, okReturns>>

\* One callback of the tick interval of capture i: onTick(elapsed), then the
\* auto-stop test
RTick(i, elapsed) ==
    /\ i \in DOMAIN captures
    /\ captures[i].timer
    /\ IF AutoStopDue(elapsed) THEN StopCall ELSE UNCHANGED <<captures, rhist>>
    /\ ev' = "rtick"
    /\ UNCHANGED <<appVars, pageVars, domVars, asyncVars, playVars, practiceVars, oldVars, onTickUi,
                   maxDuration, okReturns>>

\* The client calls Recorder.stop(): a tap on stop, or leaving the page
RStop ==
    /\ StopCall
    /\ ev' = "rstop"
    /\ UNCHANGED <<appVars, pageVars, domVars, asyncVars, playVars, practiceVars, oldVars, onTickUi,
                   maxDuration, okReturns>>

\* mediaRecorder.onstop of capture i: cleanup(), then onStop(blob)
ROnStop(i) ==
    /\ i \in DOMAIN captures
    /\ captures[i].st = "stopping"
    /\ captures' = Settle(cleanup([captures EXCEPT ![i].st = "inactive"]))
    /\ rhist' = [rhist EXCEPT !.delivered = @ + 1]
    /\ ev' = "ronstop"
    /\ UNCHANGED <<appVars, pageVars, domVars, asyncVars, playVars, practiceVars, oldVars, onTickUi,
                   maxDuration, okReturns>>

NextRecorder ==
    \/ \E md \in Durations : RStart(md)
    \/ \E i \in 1..MaxPending : RGranted(i)
    \/ \E i \in 1..MaxPending : RDenied(i)
    \/ \E i \in 1..MaxPending : \E built \in BOOLEAN : RStartThrows(i, built)
    \/ \E i \in 1..MaxPending : \E e \in TickElapsed : RTick(i, e)
    \/ RStop
    \/ \E i \in 1..MaxPending : ROnStop(i)

SpecRecorder == Init /\ [][NextRecorder]_vars

\* ---- PracticePage, part 2: cue cards with a preparation countdown -----------
\* A third specification (src/unnamed/part_006).  The user opens the part 2
\* practice; every question is a cue card whose recorder is hidden until
\* the preparation countdown ends.  App.navigate('home') is taken to replace
\* the screen at once.
PrepSec == 60
MaxCue == 3
MaxPUploads == 2

\* an entry of preps: seconds is the closure variable, timer says that its
\* interval is scheduled, ref that this.prepTimer is its handle, cur that the
\* question it was started for is on display, ended how often its endPrep ran
NewPrep == [seconds |-> PrepSec, timer |-> TRUE, ref |-> TRUE, cur |-> TRUE, ended |-> 0]

\* #skip-prep is in the document until endPrep empties #prep-timer-area
SkipShown(r) == r.cur /\ r.ended = 0

\* a countdown whose interval is cleared and whose button is gone can do nothing
PrunePreps(ps) == SelectSeq(ps, LAMBDA r : r.timer \/ SkipShown(r))

\* if (this.prepTimer) { clearInterval(this.prepTimer); this.prepTimer = null; }
clearPrepTimer(ps) ==
    [k \in DOMAIN ps |-> [ps[k] EXCEPT !.timer = @ /\ ~ps[k].ref, !.ref = FALSE]]

\* container.innerHTML = ...: what was on display is detached
DetachPreps(ps) == [k \in DOMAIN ps |-> [ps[k] EXCEPT !.cur = FALSE]]

\* endPrep of countdown i: clears the interval this.prepTimer refers to,
\* empties its own #prep-timer-area and unhides its own #recorder-area
endPrep(ps, i) ==
    /\ preps' = PrunePreps([clearPrepTimer(ps) EXCEPT
                               ![i].ended = IF @ < 2 THEN @ + 1 ELSE @])
    /\ pRecorderHidden' = IF ps[i].cur THEN FALSE ELSE pRecorderHidden

\* renderQuestion(container) with isCueCard: the new screen, the handlers,
\* then startPrepTimer, which stores the handle of its interval in
\* this.prepTimer
pStartPrepTimer(ps) ==
    PrunePreps([k \in DOMAIN ps |-> [ps[k] EXCEPT !.cur = FALSE, !.ref = FALSE]]) \o <<NewPrep>>

\* The follow-up requests whose action area has left the document
DetachFus(f) == [k \in DOMAIN f |-> [area |-> FALSE, btn |-> FALSE]]

\* this.part === 2
isCueCard == pPart = 2

pRenderQuestion ==
    /\ pScreen' = "question"
    /\ pNextBtn' = "none"
    /\ pFollow' = "none"
    /\ pFus' = DetachFus(pFus)
    /\ pRecorderHidden' = isCueCard
    /\ preps' = IF isCueCard THEN pStartPrepTimer(preps) ELSE PrunePreps(DetachPreps(preps))
    /\ pSubs' = DetachSubs(pSubs)
    /\ captures' = DetachCaptures(captures)

\* the practice card of part 2 on the home page: PracticePage.render up to
\* the request of startSession
PracticeEnter(p) ==
    /\ pScreen = "none"
    /\ oScreen = "none"
    /\ pScreen' = "loading"
    /\ pPart' = p
    /\ UNCHANGED <<pFollow, pFus>>
    /\ pCurrentIndex' = 0
    /\ pResponses' = 0
    /\ pState' = "idle"
    /\ ev' = "penter"
    /\ UNCHANGED <<pQuestions, pNextBtn, pRecorderHidden, preps, pSubs>>
    /\ UNCHANGED <<appVars, pageVars, domVars, asyncVars, recVars, playVars,
                   maxDuration, rhist, oldVars, okReturns>>

\* POST /api/sessions/start returns n questions
PracticeStartOk(n) ==
    /\ pScreen = "loading"
    /\ pQuestions' = n
    /\ IF n = 0
       THEN /\ pScreen' = "empty"
            /\ UNCHANGED <<pNextBtn, pRecorderHidden, preps, pSubs, captures, pFollow, pFus>>
       ELSE pRenderQuestion
    /\ ev' = "pstartok"
    /\ UNCHANGED pPart
    /\ UNCHANGED <<pCurrentIndex, pState, pResponses>>
    /\ UNCHANGED <<appVars, pageVars, domVars, asyncVars, onTickUi, playVars,
                   maxDuration, rhist, oldVars, okReturns>>

\* POST /api/sessions/start fails: the error screen
PracticeStartFail ==
    /\ pScreen = "loading"
    /\ pScreen' = "error"
    /\ ev' = "pstartfail"
    /\ UNCHANGED followVars
    /\ UNCHANGED <<pQuestions, pCurrentIndex, pState, pResponses, pNextBtn,
                   pRecorderHidden, preps, pSubs>>
    /\ UNCHANGED <<appVars, pageVars, domVars, asyncVars, recVars, playVars,
                   maxDuration, rhist, oldVars, okReturns>>

\* a tap on #skip-prep
PracticeSkip(i) ==
    /\ i \in DOMAIN preps
    /\ SkipShown(preps[i])
    /\ endPrep(preps, i)
    /\ ev' = "pskip"
    /\ UNCHANGED followVars
    /\ UNCHANGED <<pScreen, pQuestions, pCurrentIndex, pState, pResponses, pNextBtn, pSubs>>
    /\ UNCHANGED <<appVars, pageVars, domVars, asyncVars, recVars, playVars,
                   maxDuration, rhist, oldVars, okReturns>>

\* one callback of the interval of countdown i: seconds--, then endPrep at
\* zero or below, updateTimer otherwise (values below zero behave as zero)
PracticePrepTick(i) ==
    /\ i \in DOMAIN preps
    /\ preps[i].timer
    /\ LET left == IF preps[i].seconds > 0 THEN preps[i].seconds - 1 ELSE 0
           ps == [preps EXCEPT ![i].seconds = left]
       IN  IF left <= 0
           THEN endPrep(ps, i)
           ELSE preps' = ps /\ UNCHANGED pRecorderHidden
    /\ ev' = "ptick"
    /\ UNCHANGED followVars
    /\ UNCHANGED <<pScreen, pQuestions, pCurrentIndex, pState, pResponses, pNextBtn, pSubs>>
    /\ UNCHANGED <<appVars, pageVars, domVars, asyncVars, recVars, playVars,
                   maxDuration, rhist, oldVars, okReturns>>

\* a tap on #record-btn in state 'idle': await Recorder.start(onTick, onStop)
PracticeTapRecord ==
    /\ pScreen = "question"
    /\ ~pRecorderHidden
    /\ pState = "idle"
    /\ Len(captures) + Len(pSubs) < MaxPUploads
    /\ RecorderStart(0)
    /\ maxDuration' = 0
    /\ ev' = "precord"
    /\ UNCHANGED <<practiceVars, rhist, oldVars>>
    /\ UNCHANGED <<appVars, pageVars, domVars, asyncVars, playVars, okReturns>>

\* a tap on #record-btn in state 'recording': Recorder.stop()
PracticeTapStop ==
    /\ pScreen = "question"
    /\ ~pRecorderHidden
    /\ pState = "recording"
    /\ captures' = RecorderStop(captures)
    /\ pState' = "processing"
    /\ ev' = "pstop"
    /\ UNCHANGED followVars
    /\ UNCHANGED <<pScreen, pQuestions, pCurrentIndex, pResponses, pNextBtn,
                   pRecorderHidden, preps, pSubs>>
    /\ UNCHANGED <<appVars, pageVars, domVars, asyncVars, onTickUi, playVars,
                   maxDuration, rhist, oldVars, okReturns>>

\* getUserMedia resolves and the click handler continues: state = 'recording'
PracticeGranted(i) ==
    /\ pScreen # "none"
    /\ i \in DOMAIN captures
    /\ captures[i].st = "pending"
    /\ captures' = RecorderStarted(captures, i)
    /\ pState' = "recording"
    /\ ev' = "pgranted"
    /\ UNCHANGED followVars
    /\ UNCHANGED <<pScreen, pQuestions, pCurrentIndex, pResponses, pNextBtn,
                   pRecorderHidden, preps, pSubs>>
    /\ UNCHANGED <<appVars, pageVars, domVars, asyncVars, onTickUi, playVars,
                   maxDuration, rhist, oldVars, okReturns>>

\* getUserMedia rejects
PracticeDenied(i) ==
    /\ pScreen # "none"
    /\ i \in DOMAIN captures
    /\ captures[i].st = "pending"
    /\ captures' = RemoveAt(captures, i)
    /\ ev' = "pdenied"
    /\ UNCHANGED practiceVars
    /\ UNCHANGED <<appVars, pageVars, domVars, asyncVars, onTickUi, playVars,
                   maxDuration, rhist, oldVars, okReturns>>

\* the stop event of a MediaRecorder: cleanup(), then handleRecording(blob,
\* container) up to its await.  Its elements are those of the container as
\* it is now; without #transcription-area the first write throws.
PracticeOnStop(i) ==
    /\ pScreen # "none"
    /\ i \in DOMAIN captures
    /\ captures[i].st = "stopping"
    /\ captures' = Settle(cleanup([captures EXCEPT ![i].st = "inactive"]))
    /\ IF pScreen = "question"
       THEN /\ Len(captures') + Len(pSubs) < MaxPUploads
            /\ pSubs' = Append(pSubs, [ui |-> TRUE])
       ELSE UNCHANGED pSubs
    /\ ev' = "ponstop"
    /\ UNCHANGED followVars
    /\ UNCHANGED <<pScreen, pQuestions, pCurrentIndex, pState, pResponses, pNextBtn,
                   pRecorderHidden, preps>>
    /\ UNCHANGED <<appVars, pageVars, domVars, asyncVars, onTickUi, playVars,
                   maxDuration, rhist, oldVars, okReturns>>

\* const showFollowUp = this.part === 3
showFollowUp == pPart = 3

\* POST .../respond returns: responses.push, the Next button in the action
\* area handleRecording looked up, state = 'idle'
PracticeSubmitOk(i) ==
    /\ i \in DOMAIN pSubs
    /\ pResponses < MaxResponses
    /\ pResponses' = pResponses + 1
    /\ pNextBtn' = IF ~pSubs[i].ui THEN pNextBtn
                   ELSE IF pCurrentIndex >= pQuestions - 1 THEN "last" ELSE "next"
    /\ pFollow' = IF ~pSubs[i].ui THEN pFollow
                  ELSE IF showFollowUp THEN "button" ELSE "none"
    /\ pFus' = IF ~pSubs[i].ui THEN pFus
               ELSE [k \in DOMAIN pFus |-> [pFus[k] EXCEPT !.btn = FALSE]]
    /\ UNCHANGED pPart
    /\ pState' = "idle"
    /\ pSubs' = RemoveAt(pSubs, i)
    /\ ev' = "psubmitok"
    /\ UNCHANGED <<pScreen, pQuestions, pCurrentIndex, pRecorderHidden, preps>>
    /\ UNCHANGED <<appVars, pageVars, domVars, asyncVars, recVars, playVars,
                   maxDuration, rhist, oldVars, okReturns>>

\* POST .../respond fails: the catch block
PracticeSubmitFail(i) ==
    /\ i \in DOMAIN pSubs
    /\ pState' = "idle"
    /\ pSubs' = RemoveAt(pSubs, i)
    /\ ev' = "psubmitfail"
    /\ UNCHANGED followVars
    /\ UNCHANGED <<pScreen, pQuestions, pCurrentIndex, pResponses, pNextBtn,
                   pRecorderHidden, preps>>
    /\ UNCHANGED <<appVars, pageVars, domVars, asyncVars, recVars, playVars,
                   maxDuration, rhist, oldVars, okReturns>>

\* a tap on #next-btn: showResults on the last question, the next question
\* otherwise
PracticeTapNext ==
    /\ pScreen = "question"
    /\ pNextBtn # "none"
    /\ IF pNextBtn = "last"
       THEN /\ pScreen' = "results"
            /\ pNextBtn' = "none"
            /\ pFollow' = "none"
            /\ pFus' = DetachFus(pFus)
            /\ preps' = PrunePreps(DetachPreps(preps))
            /\ pSubs' = DetachSubs(pSubs)
            /\ captures' = DetachCaptures(captures)
            /\ UNCHANGED <<pCurrentIndex, pState, pRecorderHidden>>
       ELSE /\ pCurrentIndex' = pCurrentIndex + 1
            /\ pState' = "idle"
            /\ pRenderQuestion
    /\ ev' = "pnext"
    /\ UNCHANGED pPart
    /\ UNCHANGED <<pQuestions, pResponses>>
    /\ UNCHANGED <<appVars, pageVars, domVars, asyncVars, onTickUi, playVars,
                   maxDuration, rhist, oldVars, okReturns>>

\* a tap on #back-btn of a question: the prep timer is cleared, the recorder
\* stopped, and the home page takes the container
PracticeTapBack ==
    /\ pScreen = "question"
    /\ pScreen' = "home"
    /\ pNextBtn' = "none"
    /\ preps' = PrunePreps(DetachPreps(clearPrepTimer(preps)))
    /\ captures' = DetachCaptures(RecorderStop(captures))
    /\ pSubs' = DetachSubs(pSubs)
    /\ ev' = "pback"
    /\ pFollow' = "none"
    /\ pFus' = DetachFus(pFus)
    /\ UNCHANGED pPart
    /\ UNCHANGED <<pQuestions, pCurrentIndex, pState, pResponses, pRecorderHidden>>
    /\ UNCHANGED <<appVars, pageVars, domVars, asyncVars, onTickUi, playVars,
                   maxDuration, rhist, oldVars, okReturns>>

NextPrep ==
    \/ PracticeEnter(2)
    \/ \E n \in 0..MaxCue : PracticeStartOk(n)
    \/ PracticeStartFail
    \/ \E i \in 1..MaxCue : PracticeSkip(i)
    \/ \E i \in 1..MaxCue : PracticePrepTick(i)
    \/ PracticeTapRecord
    \/ PracticeTapStop
    \/ \E i \in 1..MaxPUploads : PracticeGranted(i)
    \/ \E i \in 1..MaxPUploads : PracticeDenied(i)
    \/ \E i \in 1..MaxPUploads : PracticeOnStop(i)
    \/ \E i \in 1..MaxPUploads : PracticeSubmitOk(i)
    \/ \E i \in 1..MaxPUploads : PracticeSubmitFail(i)
    \/ PracticeTapNext
    \/ PracticeTapBack

SpecPrep == Init /\ [][NextPrep]_vars

\* ---- follow-up questions: PracticePage part 3 and the three-part mock test --
\* A fourth specification.  PracticePage (src/unnamed/part_006) with part 3
\* offers "Get Follow-up Question" after an answer; so does the earlier
\* MockTestPage (src/unnamed/part_008) in its part 3, next to the Next button
\* with its countdown.  Of that mock test only part 3 is followed, from the
\* moment its first question is rendered, with no examiner voice selected.
MaxOldQ == 2
MaxFollowUps == 2

\* a request of the follow-up handler: area says that its action area is in
\* the document, btn that the button that was tapped is still in it
NewFollowUp == [area |-> TRUE, btn |-> TRUE]

\* a tap on #followup-btn of PracticePage: the button is disabled, POST /api/follow-up
PracticeFollowTap ==
    /\ pScreen = "question"
    /\ pFollow \in {"button", "failed"}
    /\ Len(pFus) < MaxFollowUps
    /\ pFollow' = "pending"
    /\ pFus' = Append(pFus, NewFollowUp)
    /\ ev' = "pfollow"
    /\ UNCHANGED <<pScreen, pQuestions, pCurrentIndex, pState, pResponses, pNextBtn,
                   pRecorderHidden, preps, pSubs, pPart>>
    /\ UNCHANGED <<appVars, pageVars, domVars, asyncVars, recVars, playVars,
                   maxDuration, rhist, oldVars, okReturns>>

\* the follow-up request returns: the button is replaced by the question
PracticeFollowOk(i) ==
    /\ i \in DOMAIN pFus
    /\ pFollow' = IF pFus[i].btn THEN "shown" ELSE pFollow
    /\ pFus' = RemoveAt(pFus, i)
    /\ ev' = "pfollowok"
    /\ UNCHANGED <<pScreen, pQuestions, pCurrentIndex, pState, pResponses, pNextBtn,
                   pRecorderHidden, preps, pSubs, pPart>>
    /\ UNCHANGED <<appVars, pageVars, domVars, asyncVars, recVars, playVars,
                   maxDuration, rhist, oldVars, okReturns>>

\* the follow-up request fails: 'Failed - Try Again', the button is enabled
PracticeFollowFail(i) ==
    /\ i \in DOMAIN pFus
    /\ pFollow' = IF pFus[i].btn THEN "failed" ELSE pFollow
    /\ pFus' = RemoveAt(pFus, i)
    /\ ev' = "pfollowfail"
    /\ UNCHANGED <<pScreen, pQuestions, pCurrentIndex, pState, pResponses, pNextBtn,
                   pRecorderHidden, preps, pSubs, pPart>>
    /\ UNCHANGED <<appVars, pageVars, domVars, asyncVars, recVars, playVars,
                   maxDuration, rhist, oldVars, okReturns>>

\* what no action of the three-part mock test touches
oldFrame == <<appVars, pageVars, domVars, asyncVars, playVars, maxDuration, rhist,
              practiceVars, drillVars, okReturns>>

\* container.innerHTML = ... of the three-part mock test
oldDetach ==
    /\ oFollow' = "none"
    /\ oFus' = DetachFus(oFus)
    /\ oSubs' = DetachSubs(oSubs)
    /\ captures' = DetachCaptures(captures)

\* allQuestions[p].length: part 2 is one cue card (slice(0, 1))
oldNumQ(p) == IF p = 2 THEN 1 ELSE oQuestions

\* endPrep of countdown i: clears the interval this.prepTimer refers to,
\* empties its own #prep-timer-area and unhides its own #recorder-area
oldEndPrep(ps, i) ==
    /\ oPreps' = PrunePreps([clearPrepTimer(ps) EXCEPT
                                ![i].ended = IF @ < 2 THEN @ + 1 ELSE @])
    /\ oHidden' = IF ps[i].cur THEN FALSE ELSE oHidden

\* renderQuestion(container), entered with currentIndex = idx and the
\* countdowns a: clearAutoAdvance(), the prep timer is cleared; past the
\* last question of part 1 or 2 the transition to the next part, past the
\* last question of part 3 showResults; else the question, whose recorder
\* area is hidden behind the preparation countdown if it is the cue card
oldRenderQuestion(idx, a) ==
    LET ps == clearPrepTimer(oPreps) IN
    /\ oAA' = Prune(DetachAA(clearAutoAdvance(a)))
    /\ oldDetach
    /\ IF idx >= oldNumQ(oPart)
       THEN /\ oPreps' = PrunePreps(DetachPreps(ps))
            /\ UNCHANGED oHidden
            /\ IF oPart < 3
               THEN /\ oPart' = oPart + 1
                    /\ oIndex' = 0
                    /\ oScreen' = "transition"
               ELSE /\ oIndex' = idx
                    /\ oScreen' = "results"
                    /\ UNCHANGED oPart
       ELSE /\ oIndex' = idx
            /\ oScreen' = "question"
            /\ oHidden' = (oPart = 2)
            /\ oPreps' = IF oPart = 2 THEN pStartPrepTimer(ps)
                         ELSE PrunePreps(DetachPreps(ps))
            /\ UNCHANGED oPart

\* the first question of part p is rendered; parts 1 and 3 have n questions
OldEnter(p, n) ==
    /\ oScreen = "none"
    /\ pScreen = "none"
    /\ oQuestions' = n
    /\ oPart' = p
    /\ oIndex' = 0
    /\ oScreen' = "question"
    /\ oHidden' = (p = 2)
    /\ oPreps' = IF p = 2 THEN pStartPrepTimer(oPreps) ELSE oPreps
    /\ oAA' = Prune(DetachAA(clearAutoAdvance(oAA)))
    /\ oldDetach
    /\ ev' = "oenter"
    /\ UNCHANGED <<oState, oResponses, onTickUi>>
    /\ UNCHANGED oldFrame

\* a tap on #record-btn in state 'idle'
OldTapRecord ==
    /\ oScreen = "question"
    /\ ~oHidden
    /\ oState = "idle"
    /\ Len(captures) + Len(oSubs) < MaxPUploads
    /\ RecorderStart(0)
    /\ ev' = "orecord"
    /\ UNCHANGED oldVars
    /\ UNCHANGED oldFrame

\* a tap on #record-btn in state 'recording', five seconds or more after the start
OldTapStop ==
    /\ oScreen = "question"
    /\ ~oHidden
    /\ oState = "recording"
    /\ captures' = RecorderStop(captures)
    /\ oState' = "processing"
    /\ ev' = "ostop"
    /\ UNCHANGED <<oScreen, oQuestions, oIndex, oResponses, oAA, oFollow, oFus, oSubs, onTickUi>>
    /\ UNCHANGED cueVars
    /\ UNCHANGED oldFrame

\* getUserMedia resolves: state = 'recording'
OldGranted(i) ==
    /\ oScreen # "none"
    /\ i \in DOMAIN captures
    /\ captures[i].st = "pending"
    /\ captures' = RecorderStarted(captures, i)
    /\ oState' = "recording"
    /\ ev' = "ogranted"
    /\ UNCHANGED <<oScreen, oQuestions, oIndex, oResponses, oAA, oFollow, oFus, oSubs, onTickUi>>
    /\ UNCHANGED cueVars
    /\ UNCHANGED oldFrame

\* getUserMedia rejects
OldDenied(i) ==
    /\ oScreen # "none"
    /\ i \in DOMAIN captures
    /\ captures[i].st = "pending"
    /\ captures' = RemoveAt(captures, i)
    /\ ev' = "odenied"
    /\ UNCHANGED <<oldVars, onTickUi>>
    /\ UNCHANGED oldFrame

\* the stop event: cleanup(), then handleRecording up to its await
OldOnStop(i) ==
    /\ oScreen # "none"
    /\ i \in DOMAIN captures
    /\ captures[i].st = "stopping"
    /\ captures' = Settle(cleanup([captures EXCEPT ![i].st = "inactive"]))
    /\ IF oScreen = "question"
       THEN /\ Len(captures') + Len(oSubs) < MaxPUploads
            /\ oSubs' = Append(oSubs, [ui |-> TRUE])
       ELSE UNCHANGED oSubs
    /\ ev' = "oonstop"
    /\ UNCHANGED <<oScreen, oQuestions, oIndex, oState, oResponses, oAA, oFollow, oFus, onTickUi>>
    /\ UNCHANGED cueVars
    /\ UNCHANGED oldFrame

\* POST .../respond returns: responses.push, then showNextWithAutoAdvance
\* puts the follow-up button and the Next button into the action area
OldSubmitOk(i) ==
    /\ i \in DOMAIN oSubs
    /\ oResponses < MaxResponses
    /\ Len(oAA) < MaxPending
    /\ oResponses' = oResponses + 1
    /\ oAA' = showNextWithAutoAdvance(oAA, oSubs[i].ui)
    /\ oFollow' = IF ~oSubs[i].ui THEN oFollow
                  ELSE IF oPart = 3 THEN "button" ELSE "none"
    /\ oFus' = IF oSubs[i].ui THEN [k \in DOMAIN oFus |-> [oFus[k] EXCEPT !.btn = FALSE]]
               ELSE oFus
    /\ oState' = "idle"
    /\ oSubs' = RemoveAt(oSubs, i)
    /\ ev' = "osubmitok"
    /\ UNCHANGED <<oScreen, oQuestions, oIndex, recVars>>
    /\ UNCHANGED cueVars
    /\ UNCHANGED oldFrame

\* POST .../respond fails
OldSubmitFail(i) ==
    /\ i \in DOMAIN oSubs
    /\ oState' = "idle"
    /\ oSubs' = RemoveAt(oSubs, i)
    /\ ev' = "osubmitfail"
    /\ UNCHANGED <<oScreen, oQuestions, oIndex, oResponses, oAA, oFollow, oFus, recVars>>
    /\ UNCHANGED cueVars
    /\ UNCHANGED oldFrame

\* a tap on #followup-btn: clearAutoAdvance(), the button is disabled, the
\* countdown text is removed, POST /api/follow-up
OldFollowTap ==
    /\ oScreen = "question"
    /\ oFollow \in {"button", "failed"}
    /\ Len(oFus) < MaxFollowUps
    /\ oAA' = Prune(clearAutoAdvance(oAA))
    /\ oFollow' = "pending"
    /\ oFus' = Append(oFus, NewFollowUp)
    /\ ev' = "ofollow"
    /\ UNCHANGED <<oScreen, oQuestions, oIndex, oState, oResponses, oSubs, recVars>>
    /\ UNCHANGED cueVars
    /\ UNCHANGED oldFrame

\* the follow-up request returns: the button is replaced by the question
OldFollowOk(i) ==
    /\ i \in DOMAIN oFus
    /\ oFollow' = IF oFus[i].btn THEN "shown" ELSE oFollow
    /\ oFus' = RemoveAt(oFus, i)
    /\ ev' = "ofollowok"
    /\ UNCHANGED <<oScreen, oQuestions, oIndex, oState, oResponses, oAA, oSubs, recVars>>
    /\ UNCHANGED cueVars
    /\ UNCHANGED oldFrame

\* A failed follow-up request that takes the Next button out of the document
OldFollowFailBlocks(i) ==
    /\ i \in DOMAIN oFus
    /\ oFollow' = IF oFus[i].btn THEN "failed" ELSE oFollow
    /\ oFus' = RemoveAt(oFus, i)
    /\ oAA' = DetachAA(oAA)
    /\ ev' = "ofollowfail"
    /\ UNCHANGED <<oScreen, oQuestions, oIndex, oState, oResponses, oSubs, recVars>>
    /\ UNCHANGED cueVars
    /\ UNCHANGED oldFrame

\* the follow-up request fails: 'Failed', the button is enabled
OldFollowFail(i) ==
    /\ i \in DOMAIN oFus
    /\ oFollow' = IF oFus[i].btn THEN "failed" ELSE oFollow
    /\ oFus' = RemoveAt(oFus, i)
    /\ ev' = "ofollowfail"
    /\ UNCHANGED <<oScreen, oQuestions, oIndex, oState, oResponses, oAA, oSubs, recVars>>
    /\ UNCHANGED cueVars
    /\ UNCHANGED oldFrame

\* goNext of countdown i: clearAutoAdvance(), currentIndex++, state = 'idle',
\* renderQuestion
oldGoNext(i, a) ==
    /\ oIndex < MaxOldQ + 1
    /\ oState' = "idle"
    /\ oldRenderQuestion(oIndex + 1,
                         clearAutoAdvance([a EXCEPT ![i].fired = IF a[i].fired = 0 THEN 1 ELSE 2]))

\* a tap on the Next button of countdown i
OldTapNext(i) ==
    /\ i \in DOMAIN oAA
    /\ oAA[i].btn
    /\ oldGoNext(i, oAA)
    /\ ev' = "onext"
    /\ UNCHANGED <<oQuestions, oResponses, onTickUi>>
    /\ UNCHANGED oldFrame

\* one callback of the interval of countdown i
OldAATick(i) ==
    /\ i \in DOMAIN oAA
    /\ oAA[i].timer
    /\ LET n == IF oAA[i].countdown > 0 THEN oAA[i].countdown - 1 ELSE 0
           a == [oAA EXCEPT ![i].countdown = n]
       IN IF n <= 0
          THEN /\ oldGoNext(i, a)
               /\ UNCHANGED onTickUi
          ELSE /\ oAA' = a
               /\ UNCHANGED <<oScreen, oIndex, oState, oFollow, oFus, oSubs, recVars, cueVars>>
    /\ ev' = "oaatick"
    /\ UNCHANGED <<oQuestions, oResponses>>
    /\ UNCHANGED oldFrame

\* a tap on #back-btn or #finish-btn of a question: clearAutoAdvance(), the
\* recorder is stopped, the home page takes the container
OldTapBack ==
    /\ oScreen = "question"
    /\ oScreen' = "home"
    /\ oAA' = Prune(DetachAA(clearAutoAdvance(oAA)))
    /\ oPreps' = PrunePreps(DetachPreps(clearPrepTimer(oPreps)))
    /\ UNCHANGED <<oPart, oHidden>>
    /\ oFollow' = "none"
    /\ oFus' = DetachFus(oFus)
    /\ oSubs' = DetachSubs(oSubs)
    /\ captures' = DetachCaptures(RecorderStop(captures))
    /\ ev' = "oback"
    /\ UNCHANGED <<oQuestions, oIndex, oState, oResponses, onTickUi>>
    /\ UNCHANGED oldFrame

\* a tap on #continue-btn of the part transition
OldContinue ==
    /\ oScreen = "transition"
    /\ oldRenderQuestion(oIndex, oAA)
    /\ ev' = "ocontinue"
    /\ UNCHANGED <<oQuestions, oState, oResponses, onTickUi>>
    /\ UNCHANGED oldFrame

\* a tap on #skip-prep of countdown i
OldSkipPrep(i) ==
    /\ i \in DOMAIN oPreps
    /\ SkipShown(oPreps[i])
    /\ oldEndPrep(oPreps, i)
    /\ ev' = "oskip"
    /\ UNCHANGED <<oScreen, oQuestions, oIndex, oState, oResponses, oAA, oFollow, oFus,
                   oSubs, oPart, recVars>>
    /\ UNCHANGED oldFrame

\* one callback of the interval of countdown i: seconds--, then endPrep at
\* zero
OldPrepTick(i) ==
    /\ i \in DOMAIN oPreps
    /\ oPreps[i].timer
    /\ LET left == IF oPreps[i].seconds > 0 THEN oPreps[i].seconds - 1 ELSE 0
           ps == [oPreps EXCEPT ![i].seconds = left]
       IN  IF left <= 0
           THEN oldEndPrep(ps, i)
           ELSE oPreps' = ps /\ UNCHANGED oHidden
    /\ ev' = "opreptick"
    /\ UNCHANGED <<oScreen, oQuestions, oIndex, oState, oResponses, oAA, oFollow, oFus,
                   oSubs, oPart, recVars>>
    /\ UNCHANGED oldFrame

NextFollowUp ==
    \/ PracticeEnter(3)
    \/ \E n \in 0..MaxCue : PracticeStartOk(n)
    \/ PracticeStartFail
    \/ PracticeTapRecord
    \/ PracticeTapStop
    \/ \E i \in 1..MaxPUploads : PracticeGranted(i)
    \/ \E i \in 1..MaxPUploads : PracticeDenied(i)
    \/ \E i \in 1..MaxPUploads : PracticeOnStop(i)
    \/ \E i \in 1..MaxPUploads : PracticeSubmitOk(i)
    \/ \E i \in 1..MaxPUploads : PracticeSubmitFail(i)
    \/ PracticeFollowTap
    \/ \E i \in 1..MaxFollowUps : PracticeFollowOk(i)
    \/ \E i \in 1..MaxFollowUps : PracticeFollowFail(i)
    \/ PracticeTapNext
    \/ PracticeTapBack
    \/ \E n \in 1..MaxOldQ : OldEnter(3, n)
    \/ OldTapRecord
    \/ OldTapStop
    \/ \E i \in 1..MaxPUploads : OldGranted(i)
    \/ \E i \in 1..MaxPUploads : OldDenied(i)
    \/ \E i \in 1..MaxPUploads : OldOnStop(i)
    \/ \E i \in 1..MaxPUploads : OldSubmitOk(i)
    \/ \E i \in 1..MaxPUploads : OldSubmitFail(i)
    \/ OldFollowTap
    \/ \E i \in 1..MaxFollowUps : OldFollowOk(i)
    \/ \E i \in 1..MaxFollowUps : OldFollowFail(i)
    \/ \E i \in 1..MaxPending : OldTapNext(i)
    \/ \E i \in 1..MaxPending : OldAATick(i)
    \/ OldTapBack

SpecFollowUp == Init /\ [][NextFollowUp]_vars

\* ---- the three-part mock test with its cue card ----------------------------
\* A further specification (src/unnamed/part_008): the mock test from the
\* first question of part 1 through part 2, the cue card with its preparation
\* countdown, and on into part 3; no examiner voice is selected and no
\* follow-up question is asked for.
NextCue ==
    \/ \E n \in 1..MaxOldQ : OldEnter(1, n)
    \/ OldTapRecord
    \/ OldTapStop
    \/ \E i \in 1..MaxPUploads : OldGranted(i)
    \/ \E i \in 1..MaxPUploads : OldDenied(i)
    \/ \E i \in 1..MaxPUploads : OldOnStop(i)
    \/ \E i \in 1..MaxPUploads : OldSubmitOk(i)
    \/ \E i \in 1..MaxPUploads : OldSubmitFail(i)
    \/ \E i \in 1..MaxPending : OldTapNext(i)
    \/ \E i \in 1..MaxPending : OldAATick(i)
    \/ OldContinue
    \/ \E i \in 1..MaxPending : OldSkipPrep(i)
    \/ \E i \in 1..MaxPending : OldPrepTick(i)
    \/ OldTapBack

SpecCue == Init /\ [][NextCue]_vars


\* ---- PracticePage of pages/practice.js ------------------------------------
\* A further specification: the practice page as pages/practice.js has it,
\* without preparation countdown and follow-up questions, on the fields of
\* PracticePage and the shared Recorder.  The set-up of a handler and what
\* it does after an await are separate actions, as above.

\* renderQuestion(container): the container gets a new question screen, so
\* what the pending callbacks captured is no longer in the document
prRenderQuestion ==
    /\ pScreen' = "question"
    /\ pNextBtn' = "none"
    /\ pSubs' = DetachSubs(pSubs)
    /\ captures' = DetachCaptures(captures)

\* PracticePage.render up to its await of /api/sessions/start
PrRender ==
    /\ pScreen = "none"
    /\ pScreen' = "loading"
    /\ pCurrentIndex' = 0
    /\ pResponses' = 0
    /\ pState' = "idle"
    /\ ev' = "prrender"
    /\ UNCHANGED <<pQuestions, pNextBtn, pRecorderHidden, preps, pSubs, followVars>>
    /\ UNCHANGED <<appVars, pageVars, domVars, asyncVars, recVars, playVars,
                   maxDuration, rhist, oldVars, okReturns>>

\* /api/sessions/start returns n questions (ok) or fails: the empty screen,
\* the first question, or the error screen
PrSessionReturned(n, ok) ==
    /\ pScreen = "loading"
    /\ IF ~ok
       THEN /\ pScreen' = "error"
            /\ UNCHANGED <<pQuestions, pNextBtn, pSubs, captures>>
       ELSE /\ pQuestions' = n
            /\ IF n = 0
               THEN pScreen' = "empty" /\ UNCHANGED <<pNextBtn, pSubs, captures>>
               ELSE prRenderQuestion
    /\ ev' = "prsession"
    /\ UNCHANGED <<pCurrentIndex, pState, pResponses, pRecorderHidden, preps, followVars>>
    /\ UNCHANGED <<appVars, pageVars, domVars, asyncVars, onTickUi, playVars,
                   maxDuration, rhist, oldVars, okReturns>>

\* The click handler of #record-btn up to its await: in state 'recording'
\* Recorder.stop() and state = 'processing'; in state 'processing' it returns
\* at once; otherwise it calls Recorder.start(onTick, onStop)
PrRecordClick ==
    /\ pScreen = "question"
    /\ pState # "processing"
    /\ IF pState = "recording"
       THEN /\ captures' = RecorderStop(captures)
            /\ pState' = "processing"
            /\ UNCHANGED <<onTickUi, maxDuration>>
       ELSE /\ Len(captures) + Len(pSubs) < MaxPUploads
            /\ RecorderStart(0)
            /\ maxDuration' = 0
            /\ UNCHANGED pState
    /\ ev' = "prclick"
    /\ UNCHANGED <<pScreen, pQuestions, pCurrentIndex, pResponses, pNextBtn,
                   pRecorderHidden, preps, pSubs, followVars>>
    /\ UNCHANGED <<appVars, pageVars, domVars, asyncVars, playVars, rhist, oldVars, okReturns>>

\* Recorder.start returns and the click handler continues: with true the
\* recording runs and state = 'recording'; with false only the hint changes
PrRecorderReturned(i, ok) ==
    /\ pScreen # "none"
    /\ i \in DOMAIN captures
    /\ captures[i].st = "pending"
    /\ IF ok
       THEN /\ captures' = RecorderStarted(captures, i)
            /\ pState' = "recording"
       ELSE /\ captures' = RemoveAt(captures, i)
            /\ UNCHANGED pState
    /\ ev' = "prstarted"
    /\ UNCHANGED <<pScreen, pQuestions, pCurrentIndex, pResponses, pNextBtn,
                   pRecorderHidden, preps, pSubs, followVars>>
    /\ UNCHANGED <<appVars, pageVars, domVars, asyncVars, onTickUi, playVars,
                   maxDuration, rhist, oldVars, okReturns>>

\* mediaRecorder.onstop: cleanup(), then handleRecording(blob, container) up
\* to its await.  It looks its elements up in the container as it is now;
\* without #transcription-area the first write throws before the request.
PrOnStop(i) ==
    /\ pScreen # "none"
    /\ i \in DOMAIN captures
    /\ captures[i].st = "stopping"
    /\ captures' = Settle(cleanup([captures EXCEPT ![i].st = "inactive"]))
    /\ IF pScreen = "question"
       THEN /\ Len(captures') + Len(pSubs) < MaxPUploads
            /\ pSubs' = Append(pSubs, [ui |-> TRUE])
       ELSE UNCHANGED pSubs
    /\ ev' = "pronstop"
    /\ UNCHANGED <<pScreen, pQuestions, pCurrentIndex, pState, pResponses, pNextBtn,
                   pRecorderHidden, preps, followVars>>
    /\ UNCHANGED <<appVars, pageVars, domVars, asyncVars, onTickUi, playVars,
                   maxDuration, rhist, oldVars, okReturns>>

\* POST .../respond returns and handleRecording continues: with success
\* responses.push and the Next button (isLast from the index as it is now)
\* in the action area it looked up; in both cases state = 'idle'
PrRespondReturned(i, ok) ==
    /\ i \in DOMAIN pSubs
    /\ IF ok
       THEN /\ pResponses < MaxResponses
            /\ pResponses' = pResponses + 1
            /\ pNextBtn' = IF ~pSubs[i].ui THEN pNextBtn
                           ELSE IF pCurrentIndex >= pQuestions - 1 THEN "last" ELSE "next"
       ELSE UNCHANGED <<pResponses, pNextBtn>>
    /\ pState' = "idle"
    /\ pSubs' = RemoveAt(pSubs, i)
    /\ ev' = IF ok THEN "prsubmitok" ELSE "prsubmitfail"
    /\ UNCHANGED <<pScreen, pQuestions, pCurrentIndex, pRecorderHidden, preps, followVars>>
    /\ UNCHANGED <<appVars, pageVars, domVars, asyncVars, recVars, playVars,
                   maxDuration, rhist, oldVars, okReturns>>

\* The click handler of #next-btn: showResults on the last question,
\* otherwise currentIndex++, state = 'idle', renderQuestion
PrNextClick ==
    /\ pScreen = "question"
    /\ pNextBtn # "none"
    /\ IF pNextBtn = "last"
       THEN /\ pScreen' = "results"
            /\ pNextBtn' = "none"
            /\ pSubs' = DetachSubs(pSubs)
            /\ captures' = DetachCaptures(captures)
            /\ UNCHANGED <<pCurrentIndex, pState>>
       ELSE /\ pCurrentIndex' = pCurrentIndex + 1
            /\ pState' = "idle"
            /\ prRenderQuestion
    /\ ev' = "prnext"
    /\ UNCHANGED <<pQuestions, pResponses, pRecorderHidden, preps, followVars>>
    /\ UNCHANGED <<appVars, pageVars, domVars, asyncVars, onTickUi, playVars,
                   maxDuration, rhist, oldVars, okReturns>>

\* The click handler of #back-btn of a question: Recorder.stop() if it
\* records, then the home page takes the container
PrBackClick ==
    /\ pScreen = "question"
    /\ pScreen' = "home"
    /\ pNextBtn' = "none"
    /\ captures' = DetachCaptures(RecorderStop(captures))
    /\ pSubs' = DetachSubs(pSubs)
    /\ ev' = "prback"
    /\ UNCHANGED <<pQuestions, pCurrentIndex, pState, pResponses, pRecorderHidden, preps,
                   followVars>>
    /\ UNCHANGED <<appVars, pageVars, domVars, asyncVars, onTickUi, playVars,
                   maxDuration, rhist, oldVars, okReturns>>

NextPractice ==
    \/ PrRender
    \/ \E n \in 0..MaxCue : \E ok \in BOOLEAN : PrSessionReturned(n, ok)
    \/ PrRecordClick
    \/ \E i \in 1..MaxPUploads : \E ok \in BOOLEAN : PrRecorderReturned(i, ok)
    \/ \E i \in 1..MaxPUploads : PrOnStop(i)
    \/ \E i \in 1..MaxPUploads : \E ok \in BOOLEAN : PrRespondReturned(i, ok)
    \/ PrNextClick
    \/ PrBackClick

SpecPractice == Init /\ [][NextPractice]_vars

\* ---- the pronunciation drill ----------------------------------------------
\* A further specification: the drill of PronunciationPage
\* (pages/pronunciation.js) with the shared Recorder.  The recording state of
\* the drill is the variable state of the closure that setupDrillRecord
\* makes for every drill screen; dState is the one of the screen on display.
MaxItems == 2
DrillMaxSec == 10     \* pronunciation.js:161  max 10s for pronunciation drill
DrillTicks == {1, DrillMaxSec}
drillFrame == <<appVars, pageVars, domVars, asyncVars, playVars, rhist, practiceVars,
                oScreen, oQuestions, oIndex, oState, oResponses, oAA, oFollow, oFus, oSubs,
                cueVars, okReturns>>

\* renderDrillPractice(container): a new drill screen with a new closure of
\* setupDrillRecord; the Recorder is left as it is
renderDrillPractice ==
    /\ dScreen' = "practice"
    /\ dState' = "idle"
    /\ dHint' = "listen"
    /\ dActions' = "none"
    /\ dChecks' = DetachSubs(dChecks)
    /\ captures' = DetachCaptures(captures)

\* renderDrillList(container)
renderDrillList ==
    /\ dScreen' = "list"
    /\ dActions' = "none"
    /\ dChecks' = DetachSubs(dChecks)
    /\ UNCHANGED <<dItems, dIndex, dState, dHint>>

\* PronunciationPage.render up to its await of the drills
DrRender ==
    /\ dScreen = "none"
    /\ dScreen' = "loading"
    /\ ev' = "drrender"
    /\ UNCHANGED <<dItems, dIndex, dState, dHint, dActions, dChecks>>
    /\ UNCHANGED <<drillFrame, recVars, maxDuration>>

\* the drills arrive (the list) or the request fails (the error screen)
DrLoaded(ok) ==
    /\ dScreen = "loading"
    /\ dScreen' = IF ok THEN "list" ELSE "error"
    /\ ev' = "drloaded"
    /\ UNCHANGED <<dItems, dIndex, dState, dHint, dActions, dChecks>>
    /\ UNCHANGED <<drillFrame, recVars, maxDuration>>

\* a tap on a drill of the list with n items: currentItemIndex = 0,
\* renderDrillPractice
DrItemClick(n) ==
    /\ dScreen = "list"
    /\ dItems' = n
    /\ dIndex' = 0
    /\ renderDrillPractice
    /\ ev' = "dritem"
    /\ UNCHANGED <<drillFrame, onTickUi, maxDuration>>

\* The click handler of #record-btn up to its await: in state 'recording'
\* Recorder.stop() and state = 'processing'; in state 'processing' it returns
\* at once; otherwise it calls Recorder.start(onTick, onStop, 10)
DrRecordClick ==
    /\ dScreen = "practice"
    /\ dState # "processing"
    /\ IF dState = "recording"
       THEN /\ captures' = RecorderStop(captures)
            /\ dState' = "processing"
            /\ dHint' = "checking"
            /\ UNCHANGED <<onTickUi, maxDuration>>
       ELSE /\ Len(captures) + Len(dChecks) < MaxPUploads
            /\ RecorderStart(DrillMaxSec)
            /\ maxDuration' = DrillMaxSec
            /\ UNCHANGED <<dState, dHint>>
    /\ ev' = "drclick"
    /\ UNCHANGED <<dScreen, dItems, dIndex, dActions, dChecks>>
    /\ UNCHANGED drillFrame

\* Recorder.start returns and the click handler continues, writing the
\* state of its own closure and the hint it captured
DrRecorderReturned(i, ok) ==
    /\ dScreen # "none"
    /\ i \in DOMAIN captures
    /\ captures[i].st = "pending"
    /\ IF ok
       THEN /\ captures' = RecorderStarted(captures, i)
            /\ dState' = IF captures[i].ui THEN "recording" ELSE dState
            /\ dHint' = IF captures[i].ui THEN "say" ELSE dHint
       ELSE /\ captures' = RemoveAt(captures, i)
            /\ dHint' = IF captures[i].ui THEN "denied" ELSE dHint
            /\ UNCHANGED dState
    /\ ev' = "drstarted"
    /\ UNCHANGED <<dScreen, dItems, dIndex, dActions, dChecks>>
    /\ UNCHANGED <<drillFrame, onTickUi, maxDuration>>

\* One callback of the tick interval of capture i: onTick(elapsed), then
\* this.stop() when maxDuration is reached
DrTick(i, elapsed) ==
    /\ dScreen # "none"
    /\ i \in DOMAIN captures
    /\ captures[i].timer
    /\ captures' = IF AutoStopDue(elapsed) THEN RecorderStop(captures) ELSE captures
    /\ ev' = "drtick"
    /\ UNCHANGED drillVars
    /\ UNCHANGED <<drillFrame, onTickUi, maxDuration>>

\* mediaRecorder.onstop: cleanup(), then handleDrillRecording(blob, item,
\* container) up to its await.  It looks its elements up in the container as
\* it is now; without #result-area the first write throws before the request.
DrOnStop(i) ==
    /\ dScreen # "none"
    /\ i \in DOMAIN captures
    /\ captures[i].st = "stopping"
    /\ captures' = Settle(cleanup([captures EXCEPT ![i].st = "inactive"]))
    /\ IF dScreen = "practice"
       THEN /\ Len(captures') + Len(dChecks) < MaxPUploads
            /\ dChecks' = Append(dChecks, [ui |-> TRUE])
       ELSE UNCHANGED dChecks
    /\ ev' = "dronstop"
    /\ UNCHANGED <<dScreen, dItems, dIndex, dState, dHint, dActions>>
    /\ UNCHANGED <<drillFrame, onTickUi, maxDuration>>

\* /api/pronunciation/check returns and handleDrillRecording continues: with
\* success the Try Again and Next buttons (isLast from the index as it is
\* now) and the hint 'Try again or continue', with a failure the hint 'Tap
\* to try again'.  The state of the closure is out of its reach.
DrCheckReturned(i, ok) ==
    /\ i \in DOMAIN dChecks
    /\ dChecks' = RemoveAt(dChecks, i)
    /\ dActions' = IF ok /\ dChecks[i].ui
                   THEN (IF dIndex >= dItems - 1 THEN "last" ELSE "next")
                   ELSE dActions
    /\ dHint' = IF ~dChecks[i].ui THEN dHint ELSE IF ok THEN "again" ELSE "retry"
    /\ ev' = IF ok THEN "drcheckok" ELSE "drcheckfail"
    /\ UNCHANGED <<dScreen, dItems, dIndex, dState>>
    /\ UNCHANGED <<drillFrame, recVars, maxDuration>>

\* The click handlers of the action area: #retry-btn renders the item again;
\* #next-btn renders the next item, or the list after the last one
DrActionClick(next) ==
    /\ dScreen = "practice"
    /\ dActions # "none"
    /\ IF next /\ dActions = "last"
       THEN renderDrillList /\ captures' = DetachCaptures(captures)
       ELSE /\ dIndex' = IF next THEN dIndex + 1 ELSE dIndex
            /\ renderDrillPractice
            /\ UNCHANGED dItems
    /\ ev' = "draction"
    /\ UNCHANGED <<drillFrame, onTickUi, maxDuration>>

\* The click handler of #back-btn of a drill screen: Recorder.stop() if it
\* records, then the list
DrBackClick ==
    /\ dScreen = "practice"
    /\ renderDrillList
    /\ captures' = DetachCaptures(RecorderStop(captures))
    /\ ev' = "drback"
    /\ UNCHANGED <<drillFrame, onTickUi, maxDuration>>

NextDrill ==
    \/ DrRender
    \/ \E ok \in BOOLEAN : DrLoaded(ok)
    \/ \E n \in 1..MaxItems : DrItemClick(n)
    \/ DrRecordClick
    \/ \E i \in 1..MaxPUploads : \E ok \in BOOLEAN : DrRecorderReturned(i, ok)
    \/ \E i \in 1..MaxPUploads : \E e \in DrillTicks : DrTick(i, e)
    \/ \E i \in 1..MaxPUploads : DrOnStop(i)
    \/ \E i \in 1..MaxPUploads : \E ok \in BOOLEAN : DrCheckReturned(i, ok)
    \/ \E next \in BOOLEAN : DrActionClick(next)
    \/ DrBackClick

SpecDrill == Init /\ [][NextDrill]_vars

\* ---- the claims ----------------------------------------------------------
\* Taps of the user
UserTap ==
    \/ TapMockTest
    \/ TapBackPlain
    \/ TapFinishPlain
    \/ TapBack
    \/ TapFinish
    \/ TapVoice
    \/ TapStart
    \/ TapContinue
    \/ \E side \in {"for", "against"} : TapSide(side)
    \/ TapSeeResults
    \/ \E e \in Elapsed : StopTap(e)
    \/ TapWhileProcessing
    \/ TapRecord
    \/ \E i \in 1..MaxPending : TapNext(i)

\* No stop event of a MediaRecorder is queued
NoStopQueued == \A i \in DOMAIN captures : captures[i].st # "stopping"

\* C1: between one render of the test page and the next, the length of
\* responses is the number of submitResponse calls that have returned
\* successfully since that render, and it never gets smaller.
C1_ResponsesCountSuccessfulReturns ==
    /\ [](Len(responses) = okReturns)
    /\ [][renders' = renders => Len(responses') >= Len(responses)]_vars

C1_TwoReturnsTwoResponses == okReturns = 2 /\ Len(responses) = 2

\* C2: a tap on the record button while recording, less than five seconds
\* after the recording started, stops nothing: responses, the indices, the
\* captures, the requests and the countdowns are as before, state is still
\* 'recording', and the hint shows the seconds that remain.
C2_EarlyStopRefused ==
    [][\A e \in Elapsed :
          (e < MinRecSec /\ StopTap(e)) =>
              /\ responses' = responses
              /\ currentIndex' = currentIndex
              /\ currentPartIndex' = currentPartIndex
              /\ state' = "recording"
              /\ captures' = captures
              /\ asyncVars' = asyncVars
              /\ screen' = screen
              /\ hint' = <<"wait", MinRecSec - e>>]_vars

C2_WaitHintWhileRecording ==
    /\ state = "recording"
    /\ hint = <<"wait", 1>>
    /\ isRecording

\* C3: the goNext of one auto-advance countdown runs at most once, whether
\* it was the Next button or the countdown that called it.
C3_GoNextOncePerCountdown == \A i \in DOMAIN aa : aa[i].fired <= 1

\* C4: once the user has left the test with back or Finish and until the
\* test is entered again, no auto-advance interval and no recorder tick
\* interval is running and no microphone stream is open, queued stop events
\* aside; also when a permission prompt or a submission was pending at the
\* moment of leaving.
C4_NothingRunsAfterLeaving ==
    (currentPage = "home" /\ NoStopQueued) =>
        /\ \A i \in DOMAIN aa : ~aa[i].timer
        /\ \A i \in DOMAIN captures : ~captures[i].stream /\ ~captures[i].timer

\* C5: the Recorder has at most one recording that is starting or running,
\* and every open stream and every running tick interval is the one its
\* fields refer to, so nothing was overwritten and left running.
C5_OneActiveRecording ==
    /\ Cardinality({i \in DOMAIN captures :
                       captures[i].st \in {"pending", "recording"}}) <= 1
    /\ \A i \in DOMAIN captures :
          /\ captures[i].stream => captures[i].sref
          /\ captures[i].timer => captures[i].tref

\* C6: while a submitResponse request is in flight no recording is started
\* and no second request is sent.
C6_SubmissionInFlightExcludes ==
    [][Len(subs) >= 1 =>
          /\ Len(subs') <= 1
          /\ ~TapRecord
          /\ \A i \in 1..MaxPending : ~MicGranted(i)]_vars

\* C7: when submitResponse fails, responses, the indices and the countdowns
\* are as before, so nothing was appended and no auto-advance starts, and
\* state is 'idle', so the record button records again for the same prompt.
C7_FailedSubmitChangesNothing ==
    [][\A i \in 1..MaxPending :
          SubmitFail(i) =>
              /\ responses' = responses
              /\ currentIndex' = currentIndex
              /\ currentPartIndex' = currentPartIndex
              /\ aa' = aa
              /\ state' = "idle"]_vars

C7_FailureAfterAResponse ==
    /\ ev = "submitFail"
    /\ Len(responses) >= 1
    /\ state = "idle"
    /\ hint = <<"retry", 0>>

\* C8: a tap on Finish while responses holds at least one record sends the
\* scoring request of this session.
C8_FinishWithResponsesFinalizes ==
    [][((TapFinish \/ TapFinishPlain) /\ Len(responses) >= 1) =>
          finals' = Append(finals, sessionId)]_vars

\* C9: a tap on Finish while responses is empty goes to the home page and
\* sends no scoring request.
C9_FinishWithoutResponsesGoesHome ==
    [][((TapFinish \/ TapFinishPlain) /\ Len(responses) = 0) =>
          /\ currentPage' = "home"
          /\ homePending' = homePending + 1
          /\ finals' = finals]_vars

C9_FinishedWithNothing ==
    /\ ev = "finish"
    /\ Len(responses) = 0
    /\ currentPage = "home"
    /\ finals = <<>>

\* C10: when the scoring request fails, responses is as before and the
\* screen that reports the failure has a button that sends the scoring
\* request of the same session again.
C10_FailedFinalizeCanBeRetried ==
    /\ [][\A i \in 1..MaxPending : FinalizeFail(i) => responses' = responses]_vars
    /\ [](screen = "resultsError" =>
             ENABLED (UserTap /\ finals' = Append(finals, sessionId)))

\* C11: a failed start request shows the upgrade prompt when the failure is
\* the daily limit and the error screen otherwise, and until the test page is
\* rendered again the intro, a question or debate recording screen and the
\* state 'recording' are never reached.
C11_FailedStartIsTerminal ==
    /\ [][\A l \in BOOLEAN :
             StartFail(l) => screen' = IF l THEN "limit" ELSE "startError"]_vars
    /\ [](attempt \in {"limit", "error"} =>
             /\ screen \notin {"intro", "question", "debateRecord"}
             /\ state # "recording")

\* C12: a debate side that has been chosen stays as it is while the part
\* and the render of the test page stay the same, whatever else happens, and
\* a submission sent in the debate part carries the chosen side.
C12_DebateSideKept ==
    /\ [][(debateSide # "none" /\ renders' = renders
              /\ currentPartIndex' = currentPartIndex) =>
             debateSide' = debateSide]_vars
    /\ [][\A i \in 1..MaxPending :
             (OnStop(i) /\ Len(subs') > Len(subs) /\ currentPart = "3") =>
                 /\ debateSide \in {"for", "against"}
                 /\ subs'[Len(subs')].side = debateSide]_vars

C12_AgainstSent ==
    /\ debateSide = "against"
    /\ \E i \in DOMAIN subs : subs[i].part = "3" /\ subs[i].side = "against"

C14_NoPromptAudioWhileRecording ==
    state = "recording" => (~curAudio /\ orphans = 0)

\* C15: a tap on back or Finish that leaves the test for the home page
\* ends with no prompt audio playing and with no speech request in flight
\* that would start one later.
C15_LeavingCancelsPlayback ==
    [][(TapBack \/ TapFinish \/ TapBackPlain \/ TapFinishPlain) =>
          (~curAudio' /\ orphans' = 0 /\ tts' = 0)]_vars

\* captures whose MediaRecorder was stopped and whose stop event is queued
Stopping == {i \in DOMAIN captures : captures[i].st = "stopping"}

\* C16: every recording that was started is within reach of Recorder.stop(),
\* every call of stop() that finds a recording leads to one call of onStop
\* and onStop is called for no other reason, and a call of stop() that finds
\* no recording changes nothing (SpecRecorder).
C16_StopDeliversOnce ==
    /\ [][(RStop /\ ~isRecording) => UNCHANGED <<captures, otherVars>>]_vars
    /\ [](rhist.delivered + Cardinality(Stopping) = rhist.stops)
    /\ [](\A i \in DOMAIN captures : captures[i].st = "recording" => captures[i].mr)

\* C17: a recording started with a maxDuration is no longer recording after
\* the first tick of its interval that sees elapsed >= maxDuration; onStop is
\* called at most once per started recording, and a call of stop() after the
\* recorder has been stopped changes nothing (SpecRecorder).
C17_AutoStopAtMaxDuration ==
    /\ [][\A i \in 1..MaxPending, e \in TickElapsed :
             (/\ RTick(i, e)
              /\ captures[i].st = "recording"
              /\ captures[i].md > 0
              /\ e >= captures[i].md) => captures'[i].st # "recording"]_vars
    /\ [][(RStop /\ Stopping # {} /\ ~isRecording) => UNCHANGED <<captures, otherVars>>]_vars
    /\ [](rhist.delivered <= rhist.started)

\* C18: a recording whose onStop has been called has its stream stopped and
\* its tick interval cleared, whichever way it ended (SpecRecorder).
C18_ReleasedBeforeOnStop ==
    \A i \in DOMAIN captures :
        captures[i].st = "inactive" => (~captures[i].stream /\ ~captures[i].timer)

\* C19: the endPrep of a preparation countdown runs at most once, and a
\* countdown of the question on display whose endPrep has not run yet still
\* has its interval, so that it will end at zero if it is not skipped
\* (SpecPrep).
C19_EndPrepExactlyOnce ==
    \A i \in DOMAIN preps :
        /\ preps[i].ended <= 1
        /\ SkipShown(preps[i]) => preps[i].timer

\* countdowns whose interval is scheduled
PrepTimers == {i \in DOMAIN preps : preps[i].timer}

\* C20: at no time are the intervals of two preparation countdowns scheduled,
\* which the rendering of another question has to ensure, and none is
\* scheduled once the back tap has left the question (SpecPrep).
C20_PrepTimerCleared ==
    /\ Cardinality(PrepTimers) <= 1
    /\ pScreen = "home" => PrepTimers = {}

\* C21: when renderQuestion is entered for a question part whose list is
\* empty, the engine stays in that part on a screen without a record
\* action, and responses are as they were.
C21_EmptyPartIsTerminal ==
    [][((TapStart \/ TapContinue) /\ currentPart \in QParts /\ NumQ(test, currentPart) = 0)
          => (/\ currentPartIndex' = currentPartIndex
              /\ screen' \notin {"question", "debateRecord"}
              /\ responses' = responses)]_vars

\* currentIndex is an index into the question list of the current part
ValidIndex == currentPart \in QParts /\ currentIndex < NumQ(test, currentPart)

\* C22: currentPartIndex is always an index into parts; while a question is
\* on display currentIndex is an index into the list of the current part,
\* and so it is whenever a stop event hands a recording of a question part
\* to handleRecording and in every request sent for one.
C22_IndicesValid ==
    /\ [](currentPartIndex \in 0..(Len(parts) - 1))
    /\ [](screen = "question" => ValidIndex)
    /\ [](\A i \in DOMAIN subs :
             (subs[i].ui /\ subs[i].part # "3") => (subs[i].part = currentPart /\ subs[i].q = currentIndex /\ ValidIndex))
    /\ [][\A i \in 1..MaxPending :
             (OnStop(i) /\ OnRecordScreen /\ currentPart # "3") => ValidIndex]_vars

\* a question was answered with currentIndex 0 of 1 and its request is out
C22_QuestionSubmitted ==
    /\ screen = "question"
    /\ \E i \in DOMAIN subs : subs[i].ui /\ subs[i].part = "1.2" /\ subs[i].q = 0

\* tick intervals of the Recorder that are scheduled
TickTimers == {i \in DOMAIN captures : captures[i].timer}

\* C23: when getUserMedia rejects, the hint of the record button that asked
\* says so, and nothing else changes: state (idle stays idle), responses,
\* currentPartIndex, currentIndex, debateSide and the screen are as before,
\* and no tick interval and no countdown has been started.
C23_DeniedStartChangesNothing ==
    [][\A i \in 1..MaxPending : MicDenied(i) =>
          /\ state' = state
          /\ responses' = responses
          /\ currentPartIndex' = currentPartIndex
          /\ currentIndex' = currentIndex
          /\ debateSide' = debateSide
          /\ screen' = screen
          /\ Cardinality(TickTimers') = Cardinality(TickTimers)
          /\ aa' = aa
          /\ captures[i].ui => hint' = <<"denied", 0>>]_vars

\* the denial is on display and the page is idle
C23_DeniedShown == hint = <<"denied", 0>> /\ state = "idle" /\ OnRecordScreen /\ captures = <<>>

\* a step whose handler has called playQuestion: a question or the debate
\* topic has been put on display
PlaysPrompt ==
    /\ \/ TapStart
       \/ TapContinue
       \/ \E side \in {"for", "against"} : TapSide(side)
       \/ /\ \E i \in 1..MaxPending : TapNext(i) \/ AATick(i)
          /\ currentIndex' # currentIndex
    /\ screen' \in {"question", "debateRecord"}

\* C24: when playQuestion is called while no voice is selected, no speech
\* request is sent and no audio starts; the audio of this.currentAudio, if
\* any, is paused.
C24_NoVoiceNoPlayback ==
    [][(PlaysPrompt /\ ~selectedVoice) =>
          (tts' = tts /\ orphans' = orphans /\ ~curAudio')]_vars

\* a question is on display in silent mode and nothing plays or is about to
C24_SilentQuestion ==
    /\ screen = "question"
    /\ ~selectedVoice
    /\ state = "idle"
    /\ Playing = 0

\* the record button is on display and a tap on it starts a recording
RecordAvailable == OnRecordScreen /\ state = "idle"

\* C25: when the speech request of a prompt fails, state, responses,
\* currentPartIndex, currentIndex, debateSide and the screen stay as they
\* are, and the record button is available after the failure exactly if it
\* was before; the same holds when the request succeeds.
C25_PlaybackFailureChangesNothing ==
    [][(TtsFail \/ TtsOk) =>
          /\ UNCHANGED <<state, responses, currentPartIndex, currentIndex, debateSide,
                         screen, hint>>
          /\ RecordAvailable' = RecordAvailable]_vars

\* the speech request of the question on display has just failed and the
\* record button is available
C25_FailedPlaybackCanRecord ==
    /\ ev = "ttsFail"
    /\ selectedVoice
    /\ RecordAvailable
    /\ Playing = 0

\* position of a part in MockTestPage.parts
PartIndex(p) == CHOOSE k \in 0..(Len(parts) - 1) : parts[k + 1] = p

\* r comes no later than t in the order of the exam
NotAfter(r, t) ==
    \/ PartIndex(r[1]) < PartIndex(t[1])
    \/ PartIndex(r[1]) = PartIndex(t[1]) /\ r[2] <= t[2]

\* C26: within a session responses only grows at its end, and its entries
\* are in the order of the exam: part order, then prompt order within a
\* part.
C26_ResponsesInAnswerOrder ==
    /\ [][renders' = renders =>
             /\ Len(responses') >= Len(responses)
             /\ SubSeq(responses', 1, Len(responses)) = responses]_vars
    /\ [](\A i, j \in DOMAIN responses : i < j => NotAfter(responses[i], responses[j]))

\* the Next button of the three-part mock test is in the document
OldNextAvailable == \E k \in DOMAIN oAA : oAA[k].btn

\* C27: a failed follow-up request does not block progression: the failure
\* changes neither the screen, the question index, the state, the responses
\* nor the Next button; while 'Failed' is shown the Next button is there, and
\* a tap on it advances to the next question, or to the results after the
\* last one, with the responses unchanged.
C27_FailedFollowUpDoesNotBlock ==
    /\ [][\A i \in 1..MaxFollowUps :
            /\ PracticeFollowFail(i)
                 => UNCHANGED <<pScreen, pCurrentIndex, pState, pResponses, pNextBtn>>
            /\ OldFollowFail(i)
                 => UNCHANGED <<oScreen, oIndex, oState, oResponses, oAA>>]_vars
    /\ [](pFollow = "failed" => pScreen = "question" /\ pNextBtn # "none")
    /\ [](oFollow = "failed" => oScreen = "question" /\ OldNextAvailable)
    /\ [][(PracticeTapNext /\ pFollow = "failed")
            => /\ pResponses' = pResponses
               /\ IF pCurrentIndex >= pQuestions - 1
                  THEN pScreen' = "results" /\ pCurrentIndex' = pCurrentIndex
                  ELSE pScreen' = "question" /\ pCurrentIndex' = pCurrentIndex + 1]_vars
    /\ [][((\E k \in 1..MaxPending : OldTapNext(k)) /\ oFollow = "failed")
            => /\ oResponses' = oResponses
               /\ oIndex' = oIndex + 1
               /\ oScreen' = IF oIndex + 1 >= oQuestions THEN "results" ELSE "question"]_vars

C27_FailedShown ==
    /\ ev = "ofollowfail"
    /\ oFollow = "failed"
    /\ oScreen = "question"
    /\ OldNextAvailable
    /\ oResponses > 0

\* goNext runs: the Next button of a countdown is tapped or its interval
\* reaches zero
GoNextFires ==
    \E i \in 1..MaxPending :
        TapNext(i) \/ (AATick(i) /\ aa[i].countdown <= 1)

\* C28: goNext always leaves a question that is on display, and applies the
\* end-of-part check: with another question left in the part the next
\* question of the same part is displayed; else, with another part left, the
\* transition to the next part with currentIndex = 0; else the results are
\* loaded.  So no question and no part is skipped or displayed twice.
\* Stated for the first test that is taken, while the user is in it, so that
\* nothing an earlier test has left behind is involved.
C28_EndOfPartCheck ==
    [][(GoNextFires /\ currentPage = "mock-test" /\ renders = 1) =>
         /\ screen = "question"
         /\ IF currentIndex + 1 < NumQ(test, currentPart)
            THEN /\ screen' = "question"
                 /\ currentIndex' = currentIndex + 1
                 /\ currentPartIndex' = currentPartIndex
            ELSE IF currentPartIndex < Len(parts) - 1
            THEN /\ screen' = "transition"
                 /\ currentPartIndex' = currentPartIndex + 1
                 /\ currentIndex' = 0
            ELSE screen' = "resultsLoading"]_vars

\* the intervals of the auto-advance countdowns that are scheduled
Countdowns(a) == {k \in DOMAIN a : a[k].timer}

\* showNextWithAutoAdvance has run: one more interval is scheduled, it is the
\* one this.autoAdvanceTimer refers to, and its countdown stands at five
CountdownStarted ==
    /\ Cardinality(Countdowns(aa')) = Cardinality(Countdowns(aa)) + 1
    /\ LET new == aa'[Len(aa')]
       IN new.timer /\ new.cur /\ new.countdown = AutoAdvanceSec /\ new.fired = 0

\* what goNext does to a question part: currentIndex++, state = 'idle', and
\* renderQuestion with its end-of-part check
AdvancesAsNext ==
    /\ state' = "idle"
    /\ IF currentIndex + 1 < NumQ(test, currentPart)
       THEN /\ screen' = "question"
            /\ currentIndex' = currentIndex + 1
            /\ currentPartIndex' = currentPartIndex
       ELSE IF currentPartIndex < Len(parts) - 1
       THEN /\ screen' = "transition"
            /\ currentPartIndex' = currentPartIndex + 1
            /\ currentIndex' = 0
       ELSE screen' = "resultsLoading"

\* C29 as stated: every successful submission appends its record and starts
\* a countdown of five seconds.
C29_EverySubmissionStartsCountdown ==
    [][\A i \in 1..MaxPending :
         SubmitOk(i) => /\ responses' = Append(responses, <<subs[i].part, subs[i].q>>)
                        /\ CountdownStarted]_vars

\* C29, amended: every successful submission appends its record, and for the
\* answer to a question it starts a countdown of five seconds, while for the
\* debate answer it starts none and shows the See Results button.  A
\* countdown that has not fired stands between one and five; each tick of its
\* interval takes one off, and the tick that reaches zero does what a tap on
\* Next does: so goNext runs at the fifth tick at the latest.
C29_QuestionSubmissionStartsCountdown ==
    /\ [][\A i \in 1..MaxPending :
            SubmitOk(i) =>
              /\ responses' = Append(responses, <<subs[i].part, subs[i].q>>)
              /\ IF subs[i].part = "3"
                 THEN /\ Cardinality(Countdowns(aa')) = Cardinality(Countdowns(aa))
                      /\ subs[i].ui => seeBtn'
                 ELSE CountdownStarted]_vars
    /\ [](\A k \in DOMAIN aa :
            (aa[k].timer /\ aa[k].fired = 0) => aa[k].countdown \in 1..AutoAdvanceSec)
    /\ [][\A k \in 1..MaxPending :
            (AATick(k) /\ aa[k].fired = 0) =>
              IF aa[k].countdown > 1
              THEN /\ aa'[k].countdown = aa[k].countdown - 1
                   /\ UNCHANGED <<screen, currentPartIndex, currentIndex, state, responses>>
              ELSE /\ responses' = responses
                   /\ currentPart \in QParts => AdvancesAsNext]_vars
    /\ [][\A k \in 1..MaxPending :
            (TapNext(k) /\ currentPart \in QParts) => AdvancesAsNext]_vars

C29_CountdownRunning ==
    /\ screen = "question"
    /\ responses # <<>>
    /\ \E k \in DOMAIN aa :
         aa[k].timer /\ aa[k].cur /\ aa[k].btn /\ aa[k].fired = 0 /\ aa[k].countdown = 1

\* the records of this.responses that belong to the debate part
DebateResponses == {j \in DOMAIN responses : responses[j][1] = "3"}

\* C30: the debate part accepts a single response: once responses holds the
\* debate answer no recording is started on the debate screen, and responses
\* never holds a second record of the debate part.  Stated for the first
\* test that is taken, while the user is in it, so that no submission of an
\* earlier test is involved.
C30_DebateSingleResponse ==
    /\ []((renders = 1 /\ currentPage = "mock-test") => Cardinality(DebateResponses) <= 1)
    /\ [][~(/\ TapRecord
            /\ renders = 1
            /\ currentPage = "mock-test"
            /\ screen = "debateRecord"
            /\ DebateResponses # {})]_vars

\* the records of this.responses for question q of part p
RecordsOf(p, q) == {j \in DOMAIN responses : responses[j] = <<p, q>>}

\* C31: responses holds at most one record for every question of a question
\* part.  Stated for the first test that is taken, while the user is in it,
\* so that no submission of an earlier test is involved.
C31_OneRecordPerQuestion ==
    (renders = 1 /\ currentPage = "mock-test") =>
        \A p \in QParts : \A q \in 0..MaxQ : Cardinality(RecordsOf(p, q)) <= 1

Sides == {"for", "against"}

PrepShown ==
    /\ oScreen = "question"
    /\ oPart = 2
    /\ \E k \in DOMAIN oPreps : SkipShown(oPreps[k])

\* C33: while the preparation countdown of the cue card has neither expired
\* nor been skipped, the recorder area is hidden and no recording starts;
\* for a question of another part the recorder area is never hidden.
C33_NoRecordingBeforePrepEnds ==
    /\ [](PrepShown => oHidden)
    /\ []((oScreen = "question" /\ oPart # 2) => ~oHidden)
    /\ [][\A i \in 1..MaxPUploads : OldGranted(i) => ~PrepShown]_vars

\* C34: every prompt audio that is playing is the one this.currentAudio
\* refers to, so at most one is playing and it can be paused; also when the
\* speech request of an earlier prompt returns after playQuestion was called
\* for the next one.  Stated for the first test that is taken, while the
\* user is in it.
C34_OnePromptAudio ==
    (renders = 1 /\ currentPage = "mock-test") => orphans = 0

\* C35: in the first test that is taken, and while the user is in it, the
\* Recorder records only while state is 'recording', and goNext never runs
\* while the Recorder records.
C35_PhaseAgreesWithRecorder ==
    /\ [](( renders = 1 /\ currentPage = "mock-test" /\ isRecording) => state = "recording")
    /\ [][(renders = 1 /\ currentPage = "mock-test" /\ GoNextFires) => ~isRecording]_vars

\* C36: when a submission that was sent for an earlier session returns,
\* with success or with failure, after the test was entered again and its
\* new session has started, the new test is as before: responses, the
\* countdowns, state and both indices are unchanged.
C36_StaleSubmissionHasNoEffect ==
    [][\A i \in 1..MaxPending :
          ( /\ i \in DOMAIN subs
            /\ currentPage = "mock-test"
            /\ subs[i].sid # sessionId
            /\ SubmitOk(i) \/ SubmitFail(i) ) =>
              /\ responses' = responses
              /\ aa' = aa
              /\ state' = state
              /\ currentPartIndex' = currentPartIndex
              /\ currentIndex' = currentIndex]_vars

\* C37: in the first test that is taken, and while the user is in it, at
\* most one auto-advance interval is running, and it is the one
\* this.autoAdvanceTimer holds, so clearAutoAdvance cancels every one.
C37_OneAutoAdvanceInterval ==
    (renders = 1 /\ currentPage = "mock-test") =>
        /\ Cardinality({i \in DOMAIN aa : aa[i].timer}) <= 1
        /\ \A i \in DOMAIN aa : aa[i].timer => aa[i].cur

\* C40: when Recorder.start returns false, whether getUserMedia rejected or
\* the failure came after the stream was granted, every open stream and
\* every running tick interval belongs to a recording that was running or
\* being stopped before, and those recordings are as they were.
C40_FailedStartLeavesNothing ==
    [][\A i \in 1..MaxPending :
          (RDenied(i) \/ \E built \in BOOLEAN : RStartThrows(i, built)) =>
              /\ \A k \in DOMAIN captures' :
                    (captures'[k].stream \/ captures'[k].timer)
                        => captures'[k].st \in {"recording", "stopping"}
              /\ SelectSeq(captures', LAMBDA r : r.st \in {"recording", "stopping"})
                     = SelectSeq(captures, LAMBDA r : r.st \in {"recording", "stopping"})]_vars

\* C38: on the practice page, while state is 'processing' and a submission
\* is in flight, currentIndex stays and no recording starts: no call of
\* Recorder.start is made and state does not become 'recording'.
C38_ProcessingBlocks ==
    [][(pState = "processing" /\ Len(pSubs) >= 1) =>
          /\ pCurrentIndex' = pCurrentIndex
          /\ pState' # "recording"
          /\ Len(captures') <= Len(captures)]_vars

\* C39: in the pronunciation drill, once no recording and no analysis is
\* under way any more, the recording state of the drill screen on display
\* is 'idle', so that a tap on the record button starts a new recording:
\* the state stays 'recording' or 'processing' only as long as something is
\* under way that will end it.
C39_DrillRecordsAgain ==
    (dScreen = "practice" /\ captures = <<>> /\ dChecks = <<>>) => dState = "idle"

====
